---- MODULE Spec2Model ----
(***************************************************************************)
(* Model of the bzick/tokenizer lexer (parser.go), its configuration       *)
(* (tokenizer.go) and the token stream that drives it lazily (stream.go).  *)
(* Bytes are their numeric values; a Go slice is a sequence plus the spare *)
(* capacity behind it; a run-time panic of the Go program is recorded in   *)
(* the parser's panic field or in status.                                  *)
(***************************************************************************)
EXTENDS Integers, Sequences, FiniteSets, TLC

VARIABLES t, input, mode, p, s, status

vars == <<t, input, mode, p, s, status>>

----------------------------------------------------------------------------
(* Bounds of the model *)

MaxAtoms == 3

MaxChunk == 2

MaxHistory == 1

\* The longest sequence of keys (or of groups of keys) a lookahead is given.
MaxKeys == 2

\* The number of pieces of an input of the lexer alone.
MaxLexAtoms == 4

\* The outcomes of the calls of sync.Pool.Get in one call of the API are
\* numbered as one number, from 0 to MaxFate.
MaxFate == 3

----------------------------------------------------------------------------
(* Program constants *)

DefaultChunkSize == 4096

newLine == 10

TokenUnknown == -6

TokenStringFragment == -5

TokenString == -4

TokenFloat == -3

TokenInteger == -2

TokenKeyword == -1

TokenUndef == 0

fStopOnUnknown == 1

fAllowKeywordUnderscore == 2

fAllowNumberUnderscore == 4

fAllowNumberInKeyword == 8

fAllowAtInKeyword == 16

fAllowDotInKeyword == 32

BackSlash == 92

defaultWhiteSpaces == {32, 9, 10, 13}

RuneError == 65533

----------------------------------------------------------------------------
(* helpers.go *)

\* A Go string as a call receives it: its bytes, and whether its header holds
\* a data pointer.  A string constant holds one unless it is "".
Str(b) == [bytes |-> b, data |-> Len(b) > 0]

\* The empty string cut from a string made at run time, s[:0]: no bytes, and
\* the data pointer of s.
CutEmpty == [bytes |-> <<>>, data |-> TRUE]

\* s2b: the slice takes the data pointer and the length of the string; it is
\* nil when the string has no data pointer.
s2b(str) == [bytes |-> str.bytes, nil |-> ~str.data]

isNumberByte(b) == 48 <= b /\ b <= 57

Min(a, b) == IF a < b THEN a ELSE b

----------------------------------------------------------------------------
(* tokenizer.go: configuration *)

\* The Unicode versions of the tables of package unicode: 13.0.0 in go1.16 to
\* go1.20, 15.0.0 from go1.21 on.
UnicodeVersions == {13, 15}

\* The algorithms of sort.Slice: quickSort_func up to go1.18, pdqsort_func
\* from go1.19 on.  A build with the tables of Unicode 15 has pdqsort_func.
Sorts == {"quickSort", "pdqsort"}

\* New(): no flags, no tokens, no quotes, default white spaces. The field
\* unicode is the version of the tables the program is built with, the field
\* sort the algorithm of sort.Slice it is built with.
New ==
  [flags |-> {}, tokens |-> <<>>, index |-> <<>>, quotes |-> <<>>,
   wSpaces |-> defaultWhiteSpaces, unicode |-> 13, sort |-> "pdqsort"]

\* The tokenizer tk in a program built with the tables of Unicode u.
OnBuild(tk, u) == [tk EXCEPT !.unicode = u]

\* New() in a program built with the sort.Slice srt.
NewOn(srt) == [New EXCEPT !.sort = srt]

StopOnUndefinedToken(tk) == [tk EXCEPT !.flags = @ \cup {fStopOnUnknown}]

AllowKeywordUnderscore(tk) == [tk EXCEPT !.flags = @ \cup {fAllowKeywordUnderscore}]

AllowNumbersInKeyword(tk) == [tk EXCEPT !.flags = @ \cup {fAllowNumberInKeyword}]

AllowNumberUnderscore(tk) == [tk EXCEPT !.flags = @ \cup {fAllowNumberUnderscore}]

AllowAtInKeyword(tk) == [tk EXCEPT !.flags = @ \cup {fAllowAtInKeyword}]

AllowDotInKeyword(tk) == [tk EXCEPT !.flags = @ \cup {fAllowDotInKeyword}]

SetWhiteSpaces(tk, ws) == [tk EXCEPT !.wSpaces = ws]

\* A Go map read: the zero value (nil slice) for a missing key.
MapGet(m, k) == IF k \in DOMAIN m THEN m[k] ELSE <<>>

\* The less function DefineTokens gives sort.Slice: the pattern at i is
\* longer than the pattern at j.
less(b, i, j) == Len(b[i].Token) > Len(b[j].Token)

\* The swap function of sort.Slice.
swap(b, i, j) == [b EXCEPT ![i] = b[j], ![j] = b[i]]

\* The longest bucket both algorithms sort by insertion (quickSort_func: the
\* loop `for b-a > 12`; pdqsort_func: maxInsertion).
maxInsertion == 12

\* The gap of the ShellSort pass of quickSort_func.
shellGap == 6

\* The inner loop of insertionSort_func: the element at j moves left while
\* it is less than its left neighbour.
RECURSIVE insertionSink(_, _)
insertionSink(b, j) ==
  IF j > 1 /\ less(b, j, j - 1) THEN insertionSink(swap(b, j, j - 1), j - 1) ELSE b

\* insertionSort_func from the element at i on: a stable sort.
RECURSIVE insertionSort(_, _)
insertionSort(b, i) ==
  IF i > Len(b) THEN b ELSE insertionSort(insertionSink(b, i), i + 1)

\* One turn of the ShellSort pass: the elements at i and at i - 6 change
\* places when the later one is less.
shellTurn(b, i) == IF less(b, i, i - shellGap) THEN swap(b, i, i - shellGap) ELSE b

\* The ShellSort pass with gap 6 that quickSort_func makes before the
\* insertion sort: it changes a bucket of 7 references or more.
RECURSIVE shellPass(_, _)
shellPass(b, i) == IF i > Len(b) THEN b ELSE shellPass(shellTurn(b, i), i + 1)

\* sort.Slice by descending pattern length of a bucket of at most
\* maxInsertion references with the algorithm srt.  sort.Slice is not stable:
\* quickSort_func can change the order of patterns of one length.
SortBucket(srt, b) ==
  IF srt = "quickSort"
  THEN insertionSort(shellPass(b, shellGap + 1), 2)
  ELSE insertionSort(b, 2)

\* The loop of DefineTokens over the patterns: acc.tks and acc.index.
RECURSIVE DefineTokensLoop(_, _, _, _)
DefineTokensLoop(acc, key, tokens, i) ==
  IF i > Len(tokens) THEN acc
  ELSE LET ref == [Key |-> key, Token |-> tokens[i]]
           head == ref.Token[1]
           bucket == SortBucket(acc.sort, Append(MapGet(acc.index, head), ref))
       IN DefineTokensLoop(
            [tks |-> Append(acc.tks, ref),
             index |-> (head :> bucket) @@ acc.index,
             sort |-> acc.sort],
            key, tokens, i + 1)

DefineTokens(tk, key, tokens) ==
  IF key < 1 THEN tk
  ELSE LET r == DefineTokensLoop([tks |-> <<>>, index |-> tk.index, sort |-> tk.sort],
                                 key, tokens, 1)
       IN [tk EXCEPT !.index = r.index, !.tokens = (key :> r.tks) @@ tk.tokens]

\* DefineStringToken followed by SetEscapeSymbol and AddInjection calls on the
\* returned settings: escape is 0 when no escape symbol is set, injects is
\* the sequence of (StartKey, EndKey) pairs.
\* startToken and endToken are Go strings.
DefineStringToken(tk, key, startToken, endToken, escape, injects) ==
  IF s2b(startToken).nil THEN tk
  ELSE [tk EXCEPT !.quotes = Append(@,
          [Key |-> key, StartToken |-> s2b(startToken).bytes,
           EndToken |-> s2b(endToken).bytes,
           EscapeSymbol |-> escape, Injects |-> injects])]

----------------------------------------------------------------------------
(* token.go: token nodes *)

\* A token as the pool hands it out (new(Token), or reset by freeToken).
\* string is the index of the frame settings in t.quotes, 0 for nil.
ZeroToken ==
  [id |-> 0, key |-> TokenUndef, value |-> <<>>, line |-> 0, offset |-> 0,
   indent |-> <<>>, string |-> 0]

undefToken == [ZeroToken EXCEPT !.id = -1]

\* The pool of token nodes of the tokenizer: the nodes freeToken has put into
\* the sync.Pool and Get has not returned since, each named by the place it
\* had in the emission order.  sync.Pool promises nothing about these nodes:
\* Get returns any of them or a node made by New, and a node the pool has
\* dropped (a collection, the private slot of another P) is a node that Get
\* never returns.
EmptyPool == {}

\* sync.Pool.Put, as freeToken calls it.
poolPut(pool, x) == pool \cup {x}

\* The number of outcomes of sync.Pool.Get: a new node, or one of the pool.
poolWays(pool) == Cardinality(pool) + 1

\* The o-th node of the pool, in the order of the places.
poolNth(pool, o) == CHOOSE x \in pool : Cardinality({y \in pool : y < x}) = o - 1

\* The node sync.Pool.Get returns in its outcome o, 0 for a node made by New.
poolGot(pool, o) == IF o = 0 THEN 0 ELSE poolNth(pool, o)

\* The pool after sync.Pool.Get in its outcome o.
poolLeft(pool, o) == IF o = 0 THEN pool ELSE pool \ {poolNth(pool, o)}

\* allocToken when Get has the outcome o.
allocTaken(q, o) ==
  [q EXCEPT !.token = ZeroToken,
            !.took = Append(@, poolGot(q.pool, o)),
            !.pool = poolLeft(q.pool, o),
            !.fate = q.fate \div poolWays(q.pool)]

\* p.token = p.t.allocToken(): the working token is a node from the pool, as
\* freeToken reset it, or a new one; took keeps which node it is.  The
\* outcomes of the calls of Get in one call of the API are the digits of
\* fate, the first call the lowest.
allocToken(q) == allocTaken(q, q.fate % poolWays(q.pool))

----------------------------------------------------------------------------
(* parser.go: the byte cursor *)

\* p.str[from:to] is legal up to the capacity of the slice; the bytes between
\* len and cap are the zero bytes make() left there.
SliceOK(q, from, to) == 0 <= from /\ from <= to /\ to <= Len(q.str) + q.capx

SliceVal(q, from, to) ==
  [i \in 1..(to - from) |-> IF from + i <= Len(q.str) THEN q.str[from + i] ELSE 0]

Panic(q) == [q EXCEPT !.panic = TRUE]

\* p.curr = p.str[p.pos]
readCurr(q) ==
  IF 0 <= q.pos /\ q.pos < Len(q.str)
  THEN [q EXCEPT !.curr = q.str[q.pos + 1]]
  ELSE Panic(q)

\* The errors of a reader: nil, io.EOF and any other error.
NoError == "nil"
EOF == "EOF"
ErrBroken == "broken"

\* The parsing struct.  The reader is its data still to deliver (rest), the
\* error it returns when the data is delivered (fault) and whether it returns
\* that error together with the last bytes or from the Read after them
\* (eager); returned is the last error it returned and late counts the calls
\* of Read it got after returning an error; the last held bytes of the data
\* come as a piece of their own, which no Read returns together with bytes
\* before it (as from an io.MultiReader or a connection), short tells that a Read has returned fewer bytes than chunkSize and
\* stale counts the calls of Read after such a Read.  mark and qmark are the number of
\* bytes consumed when the running turn of the loop of parse and of the loop
\* of parseQuote began, and idle counts the turns that began with no byte
\* consumed since the turn before.  pool is t.pool, took the node each token
\* and the working token got from allocToken, fate the outcomes of the calls
\* of sync.Pool.Get still to come in the running call.
newParser(tk, str) ==
  [t |-> tk, curr |-> 0, pos |-> 0, line |-> 1, str |-> str, capx |-> 0,
   reader |-> FALSE, rest |-> <<>>, token |-> [ZeroToken EXCEPT !.line = 1],
   pool |-> EmptyPool, took |-> <<0>>, fate |-> 0,
   toks |-> <<>>, tail |-> <<>>, stopKeys |-> <<>>, n |-> 0, chunkSize |-> 0,
   offset |-> 0, resume |-> FALSE, parsed |-> 0, err |-> NoError,
   fault |-> EOF, eager |-> FALSE, returned |-> NoError, late |-> 0,
   held |-> 0, short |-> FALSE, stale |-> 0,
   mark |-> -1, qmark |-> -1, idle |-> 0,
   panic |-> FALSE, ret |-> FALSE, retn |-> 0]

\* newParser on a tokenizer whose pool holds released nodes: the working
\* token comes from allocToken.
newParserOn(tk, str, pool, fate) ==
  [allocToken([newParser(tk, str) EXCEPT !.took = <<>>, !.pool = pool, !.fate = fate])
     EXCEPT !.token = [ZeroToken EXCEPT !.line = 1]]

\* The reader is a bytes.Buffer holding data; str is the zeroed buffer of
\* bufferSize bytes.
newInfParser(tk, data, bufferSize) ==
  LET size == IF bufferSize = 0 THEN DefaultChunkSize ELSE bufferSize IN
  [newParser(tk, [i \in 1..size |-> 0]) EXCEPT !.reader = TRUE, !.rest = data,
                                               !.chunkSize = size]

\* newInfParser over a reader that delivers the last held bytes of data as a
\* piece of their own and ends with the error fault.
newReaderParser(tk, data, bufferSize, fault, eager, held) ==
  [newInfParser(tk, data, bufferSize) EXCEPT !.fault = fault, !.eager = eager,
                                             !.held = held]

\* The bytes left in the piece of the data the reader is delivering.
readPiece(q) == IF Len(q.rest) > q.held THEN Len(q.rest) - q.held ELSE Len(q.rest)

\* The number of bytes a Read into a buffer of chunkSize bytes returns.
readCount(q) == Min(q.chunkSize, readPiece(q))

\* The error a Read that returns n bytes returns with them.
readError(q, n) ==
  IF n = 0 \/ (q.eager /\ n = Len(q.rest)) THEN q.fault ELSE NoError

\* The reader after a Read of n bytes that returned e.
readDone(q, n, e) ==
  [q EXCEPT !.rest = SubSeq(q.rest, n + 1, Len(q.rest)),
            !.late = IF q.returned # NoError THEN q.late + 1 ELSE q.late,
            !.returned = IF e # NoError THEN e ELSE q.returned,
            !.stale = IF q.short THEN q.stale + 1 ELSE q.stale,
            !.short = q.short \/ n < q.chunkSize]

\* A variant of readCheck that keeps the reader after a short read without
\* error.
readCheckShort(q, n, e) ==
  [q EXCEPT !.reader = (e = NoError),
            !.err = IF e # NoError /\ e # EOF THEN e ELSE q.err]

\* The end of preload and of loadChunk: a short read and an error detach the
\* reader, an error other than io.EOF is kept.
readCheck(q, n, e) ==
  [q EXCEPT !.reader = ~(n < q.chunkSize) /\ e = NoError,
            !.err = IF e # NoError /\ e # EOF THEN e ELSE q.err]

\* preload, its Read returning n bytes and the error e.
preloadRead(q, n, e) ==
  readCheck([readDone(q, n, e) EXCEPT !.str = SubSeq(q.rest, 1, n),
                                      !.capx = q.chunkSize - n],
            n, e)

\* Read fills the first n bytes of the buffer; a short read truncates str and
\* detaches the reader.
preloadN(q, n) == preloadRead(q, n, readError(q, n))

preload(q) == preloadN(q, readCount(q))

\* loadChunk, its Read returning n bytes and the error e; retn is the number
\* of bytes read.
loadChunkRead(q, n, e) ==
  readCheck([readDone(q, n, e) EXCEPT !.str = q.str \o SubSeq(q.rest, 1, n),
                                      !.capx = q.chunkSize - n,
                                      !.resume = FALSE,
                                      !.retn = n],
            n, e)

loadChunkN(q, n) == loadChunkRead(q, n, readError(q, n))

loadChunk(q) == loadChunkN(q, readCount(q))

\* ensureBytes after its loadChunk.
ensureLoaded(r, n) == [r EXCEPT !.ret = (r.pos + n < Len(r.str))]

ensureBytes(q, n) ==
  IF q.pos + n >= Len(q.str)
  THEN IF q.reader THEN ensureLoaded(loadChunk(q), n) ELSE [q EXCEPT !.ret = FALSE]
  ELSE [q EXCEPT !.ret = TRUE]

\* next after its loadChunk.
nextLoaded(r) == IF r.retn = 0 THEN [r EXCEPT !.curr = 0] ELSE readCurr(r)

\* next after p.pos++.
nextAt(a) ==
  IF a.pos >= Len(a.str)
  THEN IF ~a.reader THEN [a EXCEPT !.curr = 0] ELSE nextLoaded(loadChunk(a))
  ELSE readCurr(a)

next(q) == nextAt([q EXCEPT !.pos = q.pos + 1])

prev(q) ==
  IF q.pos > 0 THEN readCurr([q EXCEPT !.pos = q.pos - 1]) ELSE q

\* nextByte after its ensureBytes.
nextByteOf(e) ==
  IF e.ret THEN [e EXCEPT !.retn = e.str[e.pos + 2]] ELSE [e EXCEPT !.retn = 0]

\* retn is the byte after the current one, 0 when there is none.
nextByte(q) == nextByteOf(ensureBytes(q, 1))

\* p.slice(from, to) as a legality test and as a value.
sliceOK(q, from, to) ==
  IF to < Len(q.str) THEN SliceOK(q, from, to) ELSE 0 <= from /\ from <= Len(q.str)

slice(q, from, to) ==
  IF to < Len(q.str) THEN SliceVal(q, from, to) ELSE SliceVal(q, from, Len(q.str))

\* checkPoint dropping the consumed bytes without advancing the base offset.
checkPointKeepOffset(q) ==
  IF q.pos > 0
  THEN IF q.pos > Len(q.str) THEN Panic([q EXCEPT !.parsed = q.parsed + q.pos])
       ELSE LET rem == SubSeq(q.str, q.pos + 1, Len(q.str)) IN
            [q EXCEPT !.parsed = q.parsed + q.pos,
                      !.str = rem,
                      !.pos = 0,
                      !.curr = IF Len(rem) = 0 THEN 0 ELSE q.curr,
                      !.ret = q.resume]
  ELSE [q EXCEPT !.ret = q.resume]

\* The number of bytes of the input the cursor has passed.
consumed(q) == q.parsed + q.pos

\* A turn of the loop of parse begins.
turn(q) ==
  [q EXCEPT !.idle = IF q.mark >= 0 /\ consumed(q) <= q.mark THEN @ + 1 ELSE @,
            !.mark = consumed(q)]

\* A further turn of the loop of parseQuote begins.
scan(q) ==
  [q EXCEPT !.idle = IF consumed(q) <= q.qmark THEN @ + 1 ELSE @,
            !.qmark = consumed(q)]

\* The loops of the caller go on after the recursive parse c, begun at b.
unmark(c, b) == [c EXCEPT !.mark = b.mark, !.qmark = b.qmark]

\* ret is the value returned: p.resume.
checkPoint(q) ==
  IF q.pos > 0
  THEN IF q.pos > Len(q.str) THEN Panic([q EXCEPT !.parsed = q.parsed + q.pos])
       ELSE LET rem == SubSeq(q.str, q.pos + 1, Len(q.str)) IN
            [q EXCEPT !.parsed = q.parsed + q.pos,
                      !.str = rem,
                      !.offset = q.offset + q.pos,
                      !.pos = 0,
                      !.curr = IF Len(rem) = 0 THEN 0 ELSE q.curr,
                      !.ret = q.resume]
  ELSE [q EXCEPT !.ret = q.resume]

\* emmitToken handing the next working token the id of the one just emitted.
emmitTokenStaleId(q) ==
  [allocToken(q) EXCEPT !.toks = Append(q.toks, q.token),
                        !.n = q.n + 1,
                        !.token = [ZeroToken EXCEPT !.id = q.n, !.line = q.line]]

\* The list head/ptr is the sequence toks: emitting appends the working token
\* and takes a fresh one from the pool.
emmitToken(q) ==
  [allocToken(q) EXCEPT !.toks = Append(q.toks, q.token),
                        !.n = q.n + 1,
                        !.token = [ZeroToken EXCEPT !.id = q.n + 1, !.line = q.line]]

----------------------------------------------------------------------------
(* unicode/utf8 and unicode, as parseKeyword uses them *)

IsCont(b, lo, hi) == lo <= b /\ b <= hi

\* utf8.DecodeRune on the bytes b: the rune and its width in bytes.
DecodeRune(b) ==
  LET n == Len(b)
      bad == [r |-> RuneError, size |-> 1]
      p0 == b[1]
      sz == IF p0 >= 194 /\ p0 <= 223 THEN 2
            ELSE IF p0 >= 224 /\ p0 <= 239 THEN 3
            ELSE IF p0 >= 240 /\ p0 <= 244 THEN 4 ELSE 0
      lo == IF p0 = 224 THEN 160 ELSE IF p0 = 240 THEN 144 ELSE 128
      hi == IF p0 = 237 THEN 159 ELSE IF p0 = 244 THEN 143 ELSE 191
  IN IF n < 1 THEN [r |-> RuneError, size |-> 0]
     ELSE IF p0 < 128 THEN [r |-> p0, size |-> 1]
     ELSE IF sz = 0 \/ n < sz THEN bad
     ELSE IF ~IsCont(b[2], lo, hi) THEN bad
     ELSE IF sz = 2 THEN [r |-> (p0 % 32) * 64 + (b[2] % 64), size |-> 2]
     ELSE IF ~IsCont(b[3], 128, 191) THEN bad
     ELSE IF sz = 3
          THEN [r |-> (p0 % 16) * 4096 + (b[2] % 64) * 64 + (b[3] % 64), size |-> 3]
     ELSE IF ~IsCont(b[4], 128, 191) THEN bad
     ELSE [r |-> (p0 % 8) * 262144 + (b[2] % 64) * 4096 + (b[3] % 64) * 64 + (b[4] % 64),
           size |-> 4]

\* The ranges of the runes of the category L (Lu, Ll, Lt, Lm, Lo) of Unicode
\* 13.0.0: the table unicode.Letter of go1.16 to go1.20.
LetterRanges ==
  << <<65, 90>>, <<97, 122>>, <<170, 170>>, <<181, 181>>, <<186, 186>>,
     <<192, 214>>, <<216, 246>>, <<248, 705>>, <<710, 721>>, <<736, 740>>,
     <<748, 748>>, <<750, 750>>, <<880, 884>>, <<886, 887>>, <<890, 893>>,
     <<895, 895>>, <<902, 902>>, <<904, 906>>, <<908, 908>>, <<910, 929>>,
     <<931, 1013>>, <<1015, 1153>>, <<1162, 1327>>, <<1329, 1366>>,
     <<1369, 1369>>, <<1376, 1416>>, <<1488, 1514>>, <<1519, 1522>>,
     <<1568, 1610>>, <<1646, 1647>>, <<1649, 1747>>, <<1749, 1749>>,
     <<1765, 1766>>, <<1774, 1775>>, <<1786, 1788>>, <<1791, 1791>>,
     <<1808, 1808>>, <<1810, 1839>>, <<1869, 1957>>, <<1969, 1969>>,
     <<1994, 2026>>, <<2036, 2037>>, <<2042, 2042>>, <<2048, 2069>>,
     <<2074, 2074>>, <<2084, 2084>>, <<2088, 2088>>, <<2112, 2136>>,
     <<2144, 2154>>, <<2208, 2228>>, <<2230, 2247>>, <<2308, 2361>>,
     <<2365, 2365>>, <<2384, 2384>>, <<2392, 2401>>, <<2417, 2432>>,
     <<2437, 2444>>, <<2447, 2448>>, <<2451, 2472>>, <<2474, 2480>>,
     <<2482, 2482>>, <<2486, 2489>>, <<2493, 2493>>, <<2510, 2510>>,
     <<2524, 2525>>, <<2527, 2529>>, <<2544, 2545>>, <<2556, 2556>>,
     <<2565, 2570>>, <<2575, 2576>>, <<2579, 2600>>, <<2602, 2608>>,
     <<2610, 2611>>, <<2613, 2614>>, <<2616, 2617>>, <<2649, 2652>>,
     <<2654, 2654>>, <<2674, 2676>>, <<2693, 2701>>, <<2703, 2705>>,
     <<2707, 2728>>, <<2730, 2736>>, <<2738, 2739>>, <<2741, 2745>>,
     <<2749, 2749>>, <<2768, 2768>>, <<2784, 2785>>, <<2809, 2809>>,
     <<2821, 2828>>, <<2831, 2832>>, <<2835, 2856>>, <<2858, 2864>>,
     <<2866, 2867>>, <<2869, 2873>>, <<2877, 2877>>, <<2908, 2909>>,
     <<2911, 2913>>, <<2929, 2929>>, <<2947, 2947>>, <<2949, 2954>>,
     <<2958, 2960>>, <<2962, 2965>>, <<2969, 2970>>, <<2972, 2972>>,
     <<2974, 2975>>, <<2979, 2980>>, <<2984, 2986>>, <<2990, 3001>>,
     <<3024, 3024>>, <<3077, 3084>>, <<3086, 3088>>, <<3090, 3112>>,
     <<3114, 3129>>, <<3133, 3133>>, <<3160, 3162>>, <<3168, 3169>>,
     <<3200, 3200>>, <<3205, 3212>>, <<3214, 3216>>, <<3218, 3240>>,
     <<3242, 3251>>, <<3253, 3257>>, <<3261, 3261>>, <<3294, 3294>>,
     <<3296, 3297>>, <<3313, 3314>>, <<3332, 3340>>, <<3342, 3344>>,
     <<3346, 3386>>, <<3389, 3389>>, <<3406, 3406>>, <<3412, 3414>>,
     <<3423, 3425>>, <<3450, 3455>>, <<3461, 3478>>, <<3482, 3505>>,
     <<3507, 3515>>, <<3517, 3517>>, <<3520, 3526>>, <<3585, 3632>>,
     <<3634, 3635>>, <<3648, 3654>>, <<3713, 3714>>, <<3716, 3716>>,
     <<3718, 3722>>, <<3724, 3747>>, <<3749, 3749>>, <<3751, 3760>>,
     <<3762, 3763>>, <<3773, 3773>>, <<3776, 3780>>, <<3782, 3782>>,
     <<3804, 3807>>, <<3840, 3840>>, <<3904, 3911>>, <<3913, 3948>>,
     <<3976, 3980>>, <<4096, 4138>>, <<4159, 4159>>, <<4176, 4181>>,
     <<4186, 4189>>, <<4193, 4193>>, <<4197, 4198>>, <<4206, 4208>>,
     <<4213, 4225>>, <<4238, 4238>>, <<4256, 4293>>, <<4295, 4295>>,
     <<4301, 4301>>, <<4304, 4346>>, <<4348, 4680>>, <<4682, 4685>>,
     <<4688, 4694>>, <<4696, 4696>>, <<4698, 4701>>, <<4704, 4744>>,
     <<4746, 4749>>, <<4752, 4784>>, <<4786, 4789>>, <<4792, 4798>>,
     <<4800, 4800>>, <<4802, 4805>>, <<4808, 4822>>, <<4824, 4880>>,
     <<4882, 4885>>, <<4888, 4954>>, <<4992, 5007>>, <<5024, 5109>>,
     <<5112, 5117>>, <<5121, 5740>>, <<5743, 5759>>, <<5761, 5786>>,
     <<5792, 5866>>, <<5873, 5880>>, <<5888, 5900>>, <<5902, 5905>>,
     <<5920, 5937>>, <<5952, 5969>>, <<5984, 5996>>, <<5998, 6000>>,
     <<6016, 6067>>, <<6103, 6103>>, <<6108, 6108>>, <<6176, 6264>>,
     <<6272, 6276>>, <<6279, 6312>>, <<6314, 6314>>, <<6320, 6389>>,
     <<6400, 6430>>, <<6480, 6509>>, <<6512, 6516>>, <<6528, 6571>>,
     <<6576, 6601>>, <<6656, 6678>>, <<6688, 6740>>, <<6823, 6823>>,
     <<6917, 6963>>, <<6981, 6987>>, <<7043, 7072>>, <<7086, 7087>>,
     <<7098, 7141>>, <<7168, 7203>>, <<7245, 7247>>, <<7258, 7293>>,
     <<7296, 7304>>, <<7312, 7354>>, <<7357, 7359>>, <<7401, 7404>>,
     <<7406, 7411>>, <<7413, 7414>>, <<7418, 7418>>, <<7424, 7615>>,
     <<7680, 7957>>, <<7960, 7965>>, <<7968, 8005>>, <<8008, 8013>>,
     <<8016, 8023>>, <<8025, 8025>>, <<8027, 8027>>, <<8029, 8029>>,
     <<8031, 8061>>, <<8064, 8116>>, <<8118, 8124>>, <<8126, 8126>>,
     <<8130, 8132>>, <<8134, 8140>>, <<8144, 8147>>, <<8150, 8155>>,
     <<8160, 8172>>, <<8178, 8180>>, <<8182, 8188>>, <<8305, 8305>>,
     <<8319, 8319>>, <<8336, 8348>>, <<8450, 8450>>, <<8455, 8455>>,
     <<8458, 8467>>, <<8469, 8469>>, <<8473, 8477>>, <<8484, 8484>>,
     <<8486, 8486>>, <<8488, 8488>>, <<8490, 8493>>, <<8495, 8505>>,
     <<8508, 8511>>, <<8517, 8521>>, <<8526, 8526>>, <<8579, 8580>>,
     <<11264, 11310>>, <<11312, 11358>>, <<11360, 11492>>, <<11499, 11502>>,
     <<11506, 11507>>, <<11520, 11557>>, <<11559, 11559>>, <<11565, 11565>>,
     <<11568, 11623>>, <<11631, 11631>>, <<11648, 11670>>, <<11680, 11686>>,
     <<11688, 11694>>, <<11696, 11702>>, <<11704, 11710>>, <<11712, 11718>>,
     <<11720, 11726>>, <<11728, 11734>>, <<11736, 11742>>, <<11823, 11823>>,
     <<12293, 12294>>, <<12337, 12341>>, <<12347, 12348>>, <<12353, 12438>>,
     <<12445, 12447>>, <<12449, 12538>>, <<12540, 12543>>, <<12549, 12591>>,
     <<12593, 12686>>, <<12704, 12735>>, <<12784, 12799>>, <<13312, 19903>>,
     <<19968, 40956>>, <<40960, 42124>>, <<42192, 42237>>, <<42240, 42508>>,
     <<42512, 42527>>, <<42538, 42539>>, <<42560, 42606>>, <<42623, 42653>>,
     <<42656, 42725>>, <<42775, 42783>>, <<42786, 42888>>, <<42891, 42943>>,
     <<42946, 42954>>, <<42997, 43009>>, <<43011, 43013>>, <<43015, 43018>>,
     <<43020, 43042>>, <<43072, 43123>>, <<43138, 43187>>, <<43250, 43255>>,
     <<43259, 43259>>, <<43261, 43262>>, <<43274, 43301>>, <<43312, 43334>>,
     <<43360, 43388>>, <<43396, 43442>>, <<43471, 43471>>, <<43488, 43492>>,
     <<43494, 43503>>, <<43514, 43518>>, <<43520, 43560>>, <<43584, 43586>>,
     <<43588, 43595>>, <<43616, 43638>>, <<43642, 43642>>, <<43646, 43695>>,
     <<43697, 43697>>, <<43701, 43702>>, <<43705, 43709>>, <<43712, 43712>>,
     <<43714, 43714>>, <<43739, 43741>>, <<43744, 43754>>, <<43762, 43764>>,
     <<43777, 43782>>, <<43785, 43790>>, <<43793, 43798>>, <<43808, 43814>>,
     <<43816, 43822>>, <<43824, 43866>>, <<43868, 43881>>, <<43888, 44002>>,
     <<44032, 55203>>, <<55216, 55238>>, <<55243, 55291>>, <<63744, 64109>>,
     <<64112, 64217>>, <<64256, 64262>>, <<64275, 64279>>, <<64285, 64285>>,
     <<64287, 64296>>, <<64298, 64310>>, <<64312, 64316>>, <<64318, 64318>>,
     <<64320, 64321>>, <<64323, 64324>>, <<64326, 64433>>, <<64467, 64829>>,
     <<64848, 64911>>, <<64914, 64967>>, <<65008, 65019>>, <<65136, 65140>>,
     <<65142, 65276>>, <<65313, 65338>>, <<65345, 65370>>, <<65382, 65470>>,
     <<65474, 65479>>, <<65482, 65487>>, <<65490, 65495>>, <<65498, 65500>>,
     <<65536, 65547>>, <<65549, 65574>>, <<65576, 65594>>, <<65596, 65597>>,
     <<65599, 65613>>, <<65616, 65629>>, <<65664, 65786>>, <<66176, 66204>>,
     <<66208, 66256>>, <<66304, 66335>>, <<66349, 66368>>, <<66370, 66377>>,
     <<66384, 66421>>, <<66432, 66461>>, <<66464, 66499>>, <<66504, 66511>>,
     <<66560, 66717>>, <<66736, 66771>>, <<66776, 66811>>, <<66816, 66855>>,
     <<66864, 66915>>, <<67072, 67382>>, <<67392, 67413>>, <<67424, 67431>>,
     <<67584, 67589>>, <<67592, 67592>>, <<67594, 67637>>, <<67639, 67640>>,
     <<67644, 67644>>, <<67647, 67669>>, <<67680, 67702>>, <<67712, 67742>>,
     <<67808, 67826>>, <<67828, 67829>>, <<67840, 67861>>, <<67872, 67897>>,
     <<67968, 68023>>, <<68030, 68031>>, <<68096, 68096>>, <<68112, 68115>>,
     <<68117, 68119>>, <<68121, 68149>>, <<68192, 68220>>, <<68224, 68252>>,
     <<68288, 68295>>, <<68297, 68324>>, <<68352, 68405>>, <<68416, 68437>>,
     <<68448, 68466>>, <<68480, 68497>>, <<68608, 68680>>, <<68736, 68786>>,
     <<68800, 68850>>, <<68864, 68899>>, <<69248, 69289>>, <<69296, 69297>>,
     <<69376, 69404>>, <<69415, 69415>>, <<69424, 69445>>, <<69552, 69572>>,
     <<69600, 69622>>, <<69635, 69687>>, <<69763, 69807>>, <<69840, 69864>>,
     <<69891, 69926>>, <<69956, 69956>>, <<69959, 69959>>, <<69968, 70002>>,
     <<70006, 70006>>, <<70019, 70066>>, <<70081, 70084>>, <<70106, 70106>>,
     <<70108, 70108>>, <<70144, 70161>>, <<70163, 70187>>, <<70272, 70278>>,
     <<70280, 70280>>, <<70282, 70285>>, <<70287, 70301>>, <<70303, 70312>>,
     <<70320, 70366>>, <<70405, 70412>>, <<70415, 70416>>, <<70419, 70440>>,
     <<70442, 70448>>, <<70450, 70451>>, <<70453, 70457>>, <<70461, 70461>>,
     <<70480, 70480>>, <<70493, 70497>>, <<70656, 70708>>, <<70727, 70730>>,
     <<70751, 70753>>, <<70784, 70831>>, <<70852, 70853>>, <<70855, 70855>>,
     <<71040, 71086>>, <<71128, 71131>>, <<71168, 71215>>, <<71236, 71236>>,
     <<71296, 71338>>, <<71352, 71352>>, <<71424, 71450>>, <<71680, 71723>>,
     <<71840, 71903>>, <<71935, 71942>>, <<71945, 71945>>, <<71948, 71955>>,
     <<71957, 71958>>, <<71960, 71983>>, <<71999, 71999>>, <<72001, 72001>>,
     <<72096, 72103>>, <<72106, 72144>>, <<72161, 72161>>, <<72163, 72163>>,
     <<72192, 72192>>, <<72203, 72242>>, <<72250, 72250>>, <<72272, 72272>>,
     <<72284, 72329>>, <<72349, 72349>>, <<72384, 72440>>, <<72704, 72712>>,
     <<72714, 72750>>, <<72768, 72768>>, <<72818, 72847>>, <<72960, 72966>>,
     <<72968, 72969>>, <<72971, 73008>>, <<73030, 73030>>, <<73056, 73061>>,
     <<73063, 73064>>, <<73066, 73097>>, <<73112, 73112>>, <<73440, 73458>>,
     <<73648, 73648>>, <<73728, 74649>>, <<74880, 75075>>, <<77824, 78894>>,
     <<82944, 83526>>, <<92160, 92728>>, <<92736, 92766>>, <<92880, 92909>>,
     <<92928, 92975>>, <<92992, 92995>>, <<93027, 93047>>, <<93053, 93071>>,
     <<93760, 93823>>, <<93952, 94026>>, <<94032, 94032>>, <<94099, 94111>>,
     <<94176, 94177>>, <<94179, 94179>>, <<94208, 100343>>,
     <<100352, 101589>>, <<101632, 101640>>, <<110592, 110878>>,
     <<110928, 110930>>, <<110948, 110951>>, <<110960, 111355>>,
     <<113664, 113770>>, <<113776, 113788>>, <<113792, 113800>>,
     <<113808, 113817>>, <<119808, 119892>>, <<119894, 119964>>,
     <<119966, 119967>>, <<119970, 119970>>, <<119973, 119974>>,
     <<119977, 119980>>, <<119982, 119993>>, <<119995, 119995>>,
     <<119997, 120003>>, <<120005, 120069>>, <<120071, 120074>>,
     <<120077, 120084>>, <<120086, 120092>>, <<120094, 120121>>,
     <<120123, 120126>>, <<120128, 120132>>, <<120134, 120134>>,
     <<120138, 120144>>, <<120146, 120485>>, <<120488, 120512>>,
     <<120514, 120538>>, <<120540, 120570>>, <<120572, 120596>>,
     <<120598, 120628>>, <<120630, 120654>>, <<120656, 120686>>,
     <<120688, 120712>>, <<120714, 120744>>, <<120746, 120770>>,
     <<120772, 120779>>, <<123136, 123180>>, <<123191, 123197>>,
     <<123214, 123214>>, <<123584, 123627>>, <<124928, 125124>>,
     <<125184, 125251>>, <<125259, 125259>>, <<126464, 126467>>,
     <<126469, 126495>>, <<126497, 126498>>, <<126500, 126500>>,
     <<126503, 126503>>, <<126505, 126514>>, <<126516, 126519>>,
     <<126521, 126521>>, <<126523, 126523>>, <<126530, 126530>>,
     <<126535, 126535>>, <<126537, 126537>>, <<126539, 126539>>,
     <<126541, 126543>>, <<126545, 126546>>, <<126548, 126548>>,
     <<126551, 126551>>, <<126553, 126553>>, <<126555, 126555>>,
     <<126557, 126557>>, <<126559, 126559>>, <<126561, 126562>>,
     <<126564, 126564>>, <<126567, 126570>>, <<126572, 126578>>,
     <<126580, 126583>>, <<126585, 126588>>, <<126590, 126590>>,
     <<126592, 126601>>, <<126603, 126619>>, <<126625, 126627>>,
     <<126629, 126633>>, <<126635, 126651>>, <<131072, 173789>>,
     <<173824, 177972>>, <<177984, 178205>>, <<178208, 183969>>,
     <<183984, 191456>>, <<194560, 195101>>, <<196608, 201546>> >>

\* The ranges of the runes of the category L that Unicode 14.0.0 and 15.0.0
\* have added: unicode.Letter of go1.21 on holds them too.
LetterRangesAdded ==
  << <<2160, 2183>>, <<2185, 2190>>, <<2229, 2229>>, <<2248, 2249>>,
     <<3165, 3165>>, <<3293, 3293>>, <<5901, 5901>>, <<5919, 5919>>,
     <<6988, 6988>>, <<11311, 11311>>, <<11359, 11359>>, <<40957, 40959>>,
     <<42944, 42945>>, <<42960, 42961>>, <<42963, 42963>>, <<42965, 42969>>,
     <<42994, 42996>>, <<66928, 66938>>, <<66940, 66954>>, <<66956, 66962>>,
     <<66964, 66965>>, <<66967, 66977>>, <<66979, 66993>>, <<66995, 67001>>,
     <<67003, 67004>>, <<67456, 67461>>, <<67463, 67504>>, <<67506, 67514>>,
     <<69488, 69505>>, <<69745, 69746>>, <<69749, 69749>>, <<70207, 70208>>,
     <<71488, 71494>>, <<72368, 72383>>, <<73474, 73474>>, <<73476, 73488>>,
     <<73490, 73523>>, <<77712, 77808>>, <<78895, 78895>>, <<78913, 78918>>,
     <<92784, 92862>>, <<110576, 110579>>, <<110581, 110587>>,
     <<110589, 110590>>, <<110879, 110882>>, <<110898, 110898>>,
     <<110933, 110933>>, <<122624, 122654>>, <<122661, 122666>>,
     <<122928, 122989>>, <<123536, 123565>>, <<124112, 124139>>,
     <<124896, 124902>>, <<124904, 124907>>, <<124909, 124910>>,
     <<124912, 124926>>, <<173790, 173791>>, <<177973, 177977>>,
     <<201552, 205743>> >>

InRanges(ranges, r) ==
  \E i \in 1..Len(ranges) : ranges[i][1] <= r /\ r <= ranges[i][2]

\* unicode.IsLetter on a build whose tables are of the Unicode version u.
IsLetter(u, r) ==
  InRanges(LetterRanges, r) \/ (u = 15 /\ InRanges(LetterRangesAdded, r))

\* The builds lex an input alike unless it holds a rune that only the later
\* table knows as a letter.
Builds(b) ==
  IF \E i \in 1..Len(b) :
       InRanges(LetterRangesAdded, DecodeRune(SubSeq(b, i, Len(b))).r)
  THEN UnicodeVersions ELSE {13}

----------------------------------------------------------------------------
(* parser.go: the rules *)

HasFlag(q, f) == f \in q.t.flags

\* The loop of parseWhitespace: the parser and the local start.
RECURSIVE wsLoop(_, _)
wsLoop(q, start) ==
  IF q.panic \/ q.curr = 0 \/ q.curr \notin q.t.wSpaces
  THEN [p |-> q, start |-> start]
  ELSE wsLoop(next([q EXCEPT !.line = IF q.curr = newLine THEN @ + 1 ELSE @]),
              IF start = -1 THEN q.pos ELSE start)

\* parseWhitespace skipping the whitespace without keeping it as the indent.
parseWhitespaceNoIndent(q) ==
  LET r == wsLoop(q, -1) IN
  IF r.p.panic THEN r.p
  ELSE [r.p EXCEPT !.token.line = IF r.start # -1 THEN r.p.line ELSE @,
                   !.ret = r.start # -1]

\* parseWhitespace after its loop.
wsDone(r) ==
  IF r.p.panic THEN r.p
  ELSE IF r.start # -1
  THEN IF ~SliceOK(r.p, r.start, r.p.pos) THEN Panic(r.p)
       ELSE [r.p EXCEPT !.token.line = r.p.line,
                        !.token.indent = SliceVal(r.p, r.start, r.p.pos),
                        !.ret = TRUE]
  ELSE [r.p EXCEPT !.ret = FALSE]

parseWhitespace(q) == wsDone(wsLoop(q, -1))

RECURSIVE kwLoop(_, _)

\* One turn of the loop of parseKeyword, the rune d decoded.
kwRune(e, start, d) ==
  IF \/ IsLetter(e.t.unicode, d.r)
     \/ (HasFlag(e, fAllowKeywordUnderscore) /\ e.curr = 95)
     \/ (HasFlag(e, fAllowNumberInKeyword) /\ start # -1 /\ isNumberByte(e.curr))
     \/ (HasFlag(e, fAllowAtInKeyword) /\ e.curr = 64)
     \/ (HasFlag(e, fAllowDotInKeyword) /\ e.curr = 46)
  THEN kwLoop(next([e EXCEPT !.pos = e.pos + d.size - 1]),
              IF start = -1 THEN e.pos ELSE start)
  ELSE [p |-> e, start |-> start]

\* One turn of the loop of parseKeyword after ensureBytes(4).
kwStep(e, start) ==
  IF ~sliceOK(e, e.pos, e.pos + 4) THEN [p |-> Panic(e), start |-> start]
  ELSE kwRune(e, start, DecodeRune(slice(e, e.pos, e.pos + 4)))

\* The loop of parseKeyword: the parser and the local start.
kwLoop(q, start) ==
  IF q.panic \/ q.curr = 0 THEN [p |-> q, start |-> start]
  ELSE kwStep(ensureBytes(q, 4), start)

\* parseKeyword after its loop.
kwDone(r) ==
  IF r.p.panic THEN r.p
  ELSE IF r.start # -1
  THEN IF ~SliceOK(r.p, r.start, r.p.pos) THEN Panic(r.p)
       ELSE [emmitToken([r.p EXCEPT !.token.key = TokenKeyword,
                                    !.token.value = SliceVal(r.p, r.start, r.p.pos),
                                    !.token.offset = r.p.offset + r.start])
               EXCEPT !.ret = TRUE]
  ELSE [r.p EXCEPT !.ret = FALSE]

parseKeyword(q) == kwDone(kwLoop(q, -1))

stageCoefficient == 1

stageMantissa == 2

stagePower == 3

RECURSIVE numLoop(_, _, _, _)

\* A variant of numPowDigit that leaves the cursor on the sign.
numPowDigitOnSign(nb2, ePowSign, start, stage) ==
  IF isNumberByte(nb2.retn) THEN numLoop(next(nb2), start, TRUE, stagePower)
  ELSE [p |-> nb2, start |-> start, stage |-> stage]

\* The exponent branch of parseNumber after the second nextByte.
numPowDigit(nb2, ePowSign, start, stage) ==
  IF isNumberByte(nb2.retn) THEN numLoop(next(nb2), start, TRUE, stagePower)
  ELSE [p |-> IF ePowSign THEN prev(nb2) ELSE nb2, start |-> start, stage |-> stage]

\* The exponent branch of parseNumber after the switch on the sign.
numPow(a, ePowSign, start, stage) ==
  IF a.panic THEN [p |-> a, start |-> start, stage |-> stage]
  ELSE numPowDigit(nextByte(a), ePowSign, start, stage)

\* The exponent branch of parseNumber after the first nextByte.
numSign(nb, start, stage) ==
  numPow(IF nb.retn \in {45, 43} THEN next(nb) ELSE nb, nb.retn \in {45, 43},
         start, stage)

\* The loop of parseNumber: the parser and the locals start and stage.
numLoop(q, start, needNumber, stage) ==
  IF q.panic \/ q.curr = 0 THEN [p |-> q, start |-> start, stage |-> stage]
  ELSE IF isNumberByte(q.curr)
  THEN IF start = -1 /\ stage = 0
       THEN numLoop(next(q), q.pos, FALSE, stageCoefficient)
       ELSE numLoop(next(q), start, FALSE, stage)
  ELSE IF HasFlag(q, fAllowNumberUnderscore) /\ q.curr = 95
  THEN IF stage # stageCoefficient THEN [p |-> q, start |-> start, stage |-> stage]
       ELSE numLoop(next(q), start, needNumber, stage)
  ELSE IF ~needNumber /\ q.curr = 46
  THEN IF stage # stageCoefficient THEN [p |-> q, start |-> start, stage |-> stage]
       ELSE numLoop(next(q), start, TRUE, stageMantissa)
  ELSE IF ~needNumber /\ q.curr \in {101, 69}
  THEN IF stage # stageMantissa /\ stage # stageCoefficient
       THEN [p |-> q, start |-> start, stage |-> stage]
       ELSE numSign(nextByte(q), start, stage)
  ELSE [p |-> q, start |-> start, stage |-> stage]

\* parseNumber after its loop.
numDone(r) ==
  IF r.p.panic THEN r.p
  ELSE IF r.stage = 0 THEN [r.p EXCEPT !.ret = FALSE]
  ELSE IF ~SliceOK(r.p, r.start, r.p.pos) THEN Panic(r.p)
  ELSE [emmitToken([r.p EXCEPT
                      !.token.value = SliceVal(r.p, r.start, r.p.pos),
                      !.token.key = IF r.stage = stageCoefficient
                                    THEN TokenInteger ELSE TokenFloat,
                      !.token.offset = r.p.offset + r.start])
          EXCEPT !.ret = TRUE]

parseNumber(q) == numDone(numLoop(q, -1, TRUE, 0))

\* match on a pattern of several bytes after its ensureBytes.
matchLoaded(e, r, seek) ==
  IF e.ret
  THEN IF \A i \in 1..(Len(r) - 1) : r[i + 1] = e.str[e.pos + i + 1]
       THEN IF seek
            THEN [next([e EXCEPT !.pos = e.pos + Len(r) - 1]) EXCEPT !.ret = TRUE]
            ELSE [e EXCEPT !.ret = TRUE]
       ELSE [e EXCEPT !.ret = FALSE]
  ELSE [e EXCEPT !.ret = FALSE]

\* match compares the next bytes with r; ret is the result.
match(q, r, seek) ==
  IF Len(r) = 0 THEN Panic(q)
  ELSE IF r[1] = q.curr
  THEN IF Len(r) > 1 THEN matchLoaded(ensureBytes(q, Len(r) - 1), r, seek)
       ELSE IF seek THEN [next(q) EXCEPT !.ret = TRUE] ELSE [q EXCEPT !.ret = TRUE]
  ELSE [q EXCEPT !.ret = FALSE]

RECURSIVE tokLoop(_, _, _, _)

\* One turn of the loop of parseToken after match.
tokTry(m, toks, i, start) ==
  IF m.panic THEN m
  ELSE IF m.ret
  THEN [emmitToken([m EXCEPT !.token.key = toks[i].Key,
                             !.token.offset = m.offset + start,
                             !.token.value = toks[i].Token])
          EXCEPT !.ret = TRUE]
  ELSE tokLoop(m, toks, i + 1, start)

\* The loop of parseToken over the bucket of the current byte.
tokLoop(q, toks, i, start) ==
  IF i > Len(toks) THEN [q EXCEPT !.ret = FALSE]
  ELSE tokTry(match(q, toks[i].Token, TRUE), toks, i, start)

\* A variant of parseToken that looks no literal up.
parseTokenNone(q) == [q EXCEPT !.ret = FALSE]

parseToken(q) ==
  IF q.curr # 0
  THEN tokLoop(q, MapGet(q.t.index, q.curr), 1, q.pos)
  ELSE [q EXCEPT !.ret = FALSE]

RECURSIVE quoteStart(_, _)

\* One turn of the first loop of parseQuote after match.
quoteStartTry(m, i) ==
  IF m.panic THEN [p |-> m, quote |-> 0]
  ELSE IF m.ret THEN [p |-> m, quote |-> i]
  ELSE quoteStart(m, i + 1)

\* The first loop of parseQuote: the frame whose StartToken matches, 0 if none.
quoteStart(q, i) ==
  IF i > Len(q.t.quotes) THEN [p |-> q, quote |-> 0]
  ELSE quoteStartTry(match(q, q.t.quotes[i].StartToken, TRUE), i)

RECURSIVE parse(_)
RECURSIVE parseLoop(_)
RECURSIVE parseQuote(_)
RECURSIVE quoteLoop(_, _, _, _)
RECURSIVE injectLoop(_, _, _, _, _)

\* An injection after the recursive parse: the frame goes on as a fragment.
\* A panic of the recursive parse unwinds past these lines.
injectBack(c, qi, stopKeys) ==
  IF c.panic THEN [p |-> c, start |-> c.pos] ELSE
  [p |-> [c EXCEPT !.stopKeys = stopKeys,
                   !.token.key = TokenStringFragment,
                   !.token.offset = c.offset + c.pos,
                   !.token.string = qi],
   start |-> c.pos]

\* An injection with its start token emitted: the recursive parse up to the
\* end key.
injectParse(b, qi, i, stopKeys) ==
  injectBack(unmark(parse([b EXCEPT !.stopKeys =
                             MapGet(b.t.tokens, b.t.quotes[qi].Injects[i].EndKey)]),
                    b),
             qi, stopKeys)

\* An injection with the fragment before it emitted: the start token.
injectStart(a, qi, i, token, stopKeys) ==
  injectParse(emmitToken([a EXCEPT !.token.key = token.Key,
                                   !.token.value = token.Token,
                                   !.token.offset = a.offset + a.pos - Len(token.Token)]),
              qi, i, stopKeys)

\* One turn of the injection loops after match on the start literal token.
injectTry(m, qi, start, i, j, token) ==
  IF m.panic THEN [p |-> m, start |-> start]
  ELSE IF ~m.ret THEN injectLoop(m, qi, start, i, j + 1)
  ELSE IF ~SliceOK(m, start, m.pos - Len(token.Token))
  THEN [p |-> Panic(m), start |-> start]
  ELSE injectStart(emmitToken([m EXCEPT !.token.key = TokenStringFragment,
                                        !.token.value =
                                          SliceVal(m, start, m.pos - Len(token.Token))]),
                   qi, i, token, m.stopKeys)

\* The injection loops of parseQuote over quote.Injects (i) and the literals
\* refs of the start key (j).
injectRefs(q, qi, start, i, j, refs) ==
  IF j > Len(refs) THEN injectLoop(q, qi, start, i + 1, 1)
  ELSE injectTry(match(q, refs[j].Token, TRUE), qi, start, i, j, refs[j])

\* The injection loops of parseQuote: the parser and the local start.
injectLoop(q, qi, start, i, j) ==
  IF i > Len(q.t.quotes[qi].Injects) THEN [p |-> q, start |-> start]
  ELSE injectRefs(q, qi, start, i, j,
                  MapGet(q.t.tokens, q.t.quotes[qi].Injects[i].StartKey))

\* The bottom of the scanning loop of parseQuote: the line count and next.
quoteStep(a, qi, start, escapes) ==
  IF a.panic THEN [p |-> a, start |-> start]
  ELSE quoteLoop(scan(next([a EXCEPT !.line = IF a.curr = newLine THEN @ + 1 ELSE @])),
                 qi, start, escapes)

\* The scanning loop of parseQuote after the injection loops.
quoteInjected(r, qi) == quoteStep(r.p, qi, r.start, FALSE)

\* The scanning loop of parseQuote after match on the end token.
quoteEndTry(m, qi, start) ==
  IF m.panic \/ m.ret THEN [p |-> m, start |-> start]
  ELSE IF Len(m.t.quotes[qi].Injects) > 0
  THEN quoteInjected(injectLoop(m, qi, start, 1, 1), qi)
  ELSE quoteStep(m, qi, start, FALSE)

\* The scanning loop of parseQuote: the parser and the local start.
quoteLoop(q, qi, start, escapes) ==
  IF q.panic \/ q.curr = 0 THEN [p |-> q, start |-> start]
  ELSE IF escapes THEN quoteStep(q, qi, start, FALSE)
  ELSE IF q.curr = q.t.quotes[qi].EscapeSymbol THEN quoteStep(q, qi, start, TRUE)
  ELSE quoteEndTry(match(q, q.t.quotes[qi].EndToken, TRUE), qi, start)

\* A variant of quoteDone that takes a frame the input ends in for an error.
quoteDoneClosed(r) ==
  IF r.p.panic \/ r.p.curr = 0 THEN Panic(r.p)
  ELSE IF ~SliceOK(r.p, r.start, r.p.pos) THEN Panic(r.p)
  ELSE [emmitToken([r.p EXCEPT !.token.value = SliceVal(r.p, r.start, r.p.pos)])
          EXCEPT !.ret = TRUE]

\* parseQuote after the scanning loop.
quoteDone(r) ==
  IF r.p.panic THEN r.p
  ELSE IF ~SliceOK(r.p, r.start, r.p.pos) THEN Panic(r.p)
  ELSE [emmitToken([r.p EXCEPT !.token.value = SliceVal(r.p, r.start, r.p.pos)])
          EXCEPT !.ret = TRUE]

\* parseQuote after the search for a start token, start the position before it.
quoteBegin(f, start) ==
  IF f.p.panic THEN f.p
  ELSE IF f.quote = 0 THEN [f.p EXCEPT !.ret = FALSE]
  ELSE quoteDone(quoteLoop([f.p EXCEPT !.token.key = TokenString,
                                       !.token.offset = f.p.offset + start,
                                       !.token.string = f.quote,
                                       !.qmark = consumed(f.p)],
                           f.quote, start, FALSE))

parseQuote(q) == quoteBegin(quoteStart(q, 1), q.pos)

\* The loop of parse after the Unknown token is filled and next is called.
afterUnknown(nx) ==
  IF nx.panic THEN nx
  ELSE IF nx.curr = 0 THEN [emmitToken(nx) EXCEPT !.ret = FALSE]
  ELSE parseLoop(emmitToken(nx))

\* A variant of afterQuote that takes two turns of the loop for an unknown
\* byte: the first one only fills the key of the token.
afterQuoteTwice(qt) ==
  IF qt.panic THEN qt
  ELSE IF qt.ret THEN parseLoop(qt)
  ELSE IF qt.curr = 0 THEN [qt EXCEPT !.ret = FALSE]
  ELSE IF HasFlag(qt, fStopOnUnknown) THEN [qt EXCEPT !.ret = FALSE]
  ELSE IF qt.token.key # TokenUnknown THEN parseLoop([qt EXCEPT !.token.key = TokenUnknown])
  ELSE IF ~SliceOK(qt, qt.pos, qt.pos + 1) THEN Panic(qt)
  ELSE afterUnknown(next([qt EXCEPT !.token.key = TokenUnknown,
                                    !.token.value = SliceVal(qt, qt.pos, qt.pos + 1),
                                    !.token.offset = qt.offset + qt.pos]))

\* The loop of parse after parseQuote.
afterQuote(qt) ==
  IF qt.panic THEN qt
  ELSE IF qt.ret THEN parseLoop(qt)
  ELSE IF qt.curr = 0 THEN [qt EXCEPT !.ret = FALSE]
  ELSE IF HasFlag(qt, fStopOnUnknown) THEN [qt EXCEPT !.ret = FALSE]
  ELSE IF ~SliceOK(qt, qt.pos, qt.pos + 1) THEN Panic(qt)
  ELSE afterUnknown(next([qt EXCEPT !.token.key = TokenUnknown,
                                    !.token.value = SliceVal(qt, qt.pos, qt.pos + 1),
                                    !.token.offset = qt.offset + qt.pos]))

\* The loop of parse after parseNumber.
afterNumber(nm) ==
  IF nm.panic THEN nm
  ELSE IF nm.ret THEN parseLoop(nm)
  ELSE IF nm.curr = 0 THEN [nm EXCEPT !.ret = FALSE]
  ELSE afterQuote(parseQuote(nm))

\* The loop of parse after parseKeyword.
afterKeyword(kw) ==
  IF kw.panic THEN kw
  ELSE IF kw.ret THEN parseLoop(kw)
  ELSE IF kw.curr = 0 THEN [kw EXCEPT !.ret = FALSE]
  ELSE afterNumber(parseNumber(kw))

\* The loop of parse after parseToken.
afterToken(tk) ==
  IF tk.panic THEN tk
  ELSE IF tk.ret THEN parseLoop(tk)
  ELSE IF tk.curr = 0 THEN [tk EXCEPT !.ret = FALSE]
  ELSE afterKeyword(parseKeyword(tk))

\* The loop of parse after parseWhitespace.
afterWhitespace(w) ==
  IF w.panic THEN w
  ELSE IF w.curr = 0 THEN [w EXCEPT !.ret = FALSE]
  ELSE afterToken(parseToken(w))

\* The loop of parse after checkPoint: the stop keys against p.ptr.
afterCheckPoint(c) ==
  IF c.panic THEN c
  ELSE IF ~c.ret THEN [c EXCEPT !.ret = FALSE]
  ELSE IF Len(c.stopKeys) > 0 /\ Len(c.toks) = 0 THEN Panic(c)
  ELSE IF Len(c.stopKeys) > 0
          /\ \E i \in 1..Len(c.stopKeys) : c.toks[Len(c.toks)].key = c.stopKeys[i].Key
  THEN [c EXCEPT !.ret = TRUE]
  ELSE afterWhitespace(parseWhitespace(c))

\* The loop of parse. ret is TRUE when parse returns from inside the loop (a
\* stop key), FALSE when the loop is left.
parseLoop(q) == afterCheckPoint(checkPoint(turn(q)))

\* parse after its loop: the pending indent becomes the tail.
parseEnd(c) ==
  IF c.panic \/ c.ret THEN c
  ELSE IF Len(c.token.indent) > 0 THEN [c EXCEPT !.tail = c.token.indent]
  ELSE c

\* parse after p.curr = p.str[p.pos].
parseRun(b) ==
  IF b.panic THEN b ELSE parseEnd(parseLoop([b EXCEPT !.resume = TRUE, !.mark = -1]))

\* parse on an empty buffer after loadChunk.
parseLoaded(a) == IF a.retn = 0 THEN a ELSE parseRun(readCurr(a))

\* parse extends the token list from the buffer.
parse(q) ==
  IF Len(q.str) = 0
  THEN IF ~q.reader THEN q ELSE parseLoaded(loadChunk(q))
  ELSE parseRun(readCurr(q))

----------------------------------------------------------------------------
(* stream.go: the token stream *)

\* Pointers to token nodes: the position of the node in the emission order,
\* Undef for undefToken, Nil for nil.
Undef == 0

Nil == -1

\* A world is the stream, its parser and the fate of the call: "ok", "panic"
\* (a nil dereference or an index out of range) or "hang" (a loop that never
\* ends).
World(ss, pp, st) == [s |-> ss, p |-> pp, st |-> st]

\* The place x of the emission order is linked when its token was emitted
\* and not unlinked by history eviction.
Linked(w, x) == x > w.s.freed /\ x <= Len(w.p.toks)

\* The place x was released by history eviction and allocToken has taken its
\* node out of the pool again.
Retaken(w, x) ==
  x >= 1 /\ x <= w.s.freed /\ \E k \in 1..Len(w.p.took) : w.p.took[k] = x

\* The place of the token the node of the pointer x holds now: a released
\* node that allocToken has taken again holds a later token, or the working
\* token of the parser.
RECURSIVE node(_, _)
node(w, x) ==
  IF Retaken(w, x)
  THEN node(w, CHOOSE k \in 1..Len(w.p.took) : w.p.took[k] = x)
  ELSE x

\* The fields of the node at the place y: the emitted token, the working
\* token p.token, or what freeToken left of a released node.
slotToken(w, y) ==
  IF y = Undef THEN undefToken
  ELSE IF Linked(w, y) THEN w.p.toks[y]
  ELSE IF y = Len(w.p.toks) + 1 THEN w.p.token
  ELSE ZeroToken

slotNext(w, y) == IF Linked(w, y) /\ y < Len(w.p.toks) THEN y + 1 ELSE Nil

slotPrev(w, y) == IF Linked(w, y) /\ y - 1 > w.s.freed THEN y - 1 ELSE Nil

nodeNext(w, x) == slotNext(w, node(w, x))

nodePrev(w, x) == slotPrev(w, node(w, x))

nodeId(w, x) == slotToken(w, node(w, x)).id

nodeKey(w, x) == slotToken(w, node(w, x)).key

validateToken(x) == IF x # Nil THEN x ELSE Undef

\* p.head: the first emitted node, nil when nothing was emitted.
parserHead(q) == IF Len(q.toks) > 0 THEN 1 ELSE Nil

\* A variant of NewStream that counts whole chunks only.
NewStreamChunksOnly(q) ==
  [len |-> q.n, current |-> validateToken(parserHead(q)), prev |-> Nil, next |-> Nil,
   head |-> validateToken(parserHead(q)), wsTail |-> q.tail,
   parsed |-> q.parsed, attached |-> FALSE, historySize |-> 0, freed |-> 0]

NewStream(q) ==
  [len |-> q.n, current |-> validateToken(parserHead(q)), prev |-> Nil, next |-> Nil,
   head |-> validateToken(parserHead(q)), wsTail |-> q.tail,
   parsed |-> q.parsed + q.pos, attached |-> FALSE, historySize |-> 0, freed |-> 0]

NewInfStream(q) ==
  [len |-> q.n, current |-> validateToken(parserHead(q)), prev |-> Nil, next |-> Nil,
   head |-> validateToken(parserHead(q)), wsTail |-> <<>>,
   parsed |-> 0, attached |-> TRUE, historySize |-> 0, freed |-> 0]

\* A variant of the eviction that forgets to count the released node.
unlinkHeadKeepLen(w) ==
  IF nodeNext(w, w.s.head) = Nil THEN [w EXCEPT !.st = "panic"]
  ELSE [w EXCEPT !.s.head = nodeNext(w, w.s.head), !.s.freed = @ + 1,
                 !.p.pool = poolPut(@, w.s.head)]

\* Token.unlink on the head, freeToken and the len-- of GoNext.
unlinkHead(w) ==
  IF nodeNext(w, w.s.head) = Nil THEN [w EXCEPT !.st = "panic"]
  ELSE [w EXCEPT !.s.head = nodeNext(w, w.s.head),
                 !.s.freed = @ + 1,
                 !.s.len = @ - 1,
                 !.p.pool = poolPut(@, w.s.head)]

\* A variant of the eviction test that lets the head lag one token further.
goNextEvictLate(w1) ==
  IF w1.s.historySize # 0 /\ nodeId(w1, w1.s.current) - nodeId(w1, w1.s.head) > w1.s.historySize + 1
  THEN unlinkHead(w1) ELSE w1

\* GoNext after the lazy parse: the history limit.
goNextEvict(w1) ==
  IF w1.s.historySize # 0
     /\ nodeId(w1, w1.s.current) - nodeId(w1, w1.s.head) > w1.s.historySize
  THEN unlinkHead(w1)
  ELSE w1

\* GoNext moved onto the node cn; q is the parser after the lazy parse.
goNextMoved(w, cn, q) ==
  IF q.panic THEN [w EXCEPT !.s.current = cn, !.p = q, !.st = "panic"]
  ELSE goNextEvict([s |-> [w.s EXCEPT !.current = cn, !.len = @ + (q.n - w.p.n)],
                    p |-> q,
                    st |-> "ok"])

GoNext(w) ==
  IF w.st # "ok" THEN w
  ELSE IF w.s.current = Nil THEN [w EXCEPT !.st = "panic"]
  ELSE IF nodeNext(w, w.s.current) # Nil
  THEN goNextMoved(w, nodeNext(w, w.s.current),
                   IF nodeNext(w, nodeNext(w, w.s.current)) = Nil /\ w.s.attached
                   THEN parse(w.p) ELSE w.p)
  ELSE IF w.s.current = Undef
  THEN [w EXCEPT !.s.current = w.s.prev, !.s.prev = Nil]
  ELSE [w EXCEPT !.s.prev = w.s.current, !.s.current = Undef]

GoPrev(w) ==
  IF w.st # "ok" THEN w
  ELSE IF w.s.current = Nil THEN [w EXCEPT !.st = "panic"]
  ELSE IF nodePrev(w, w.s.current) # Nil
  THEN [w EXCEPT !.s.current = nodePrev(w, w.s.current)]
  ELSE IF w.s.current = Undef
  THEN [w EXCEPT !.s.current = w.s.next, !.s.prev = Nil]
  ELSE [w EXCEPT !.s.next = w.s.current, !.s.current = Undef]

\* The loops of GoTo: step while current is not nil and its id is not id.
\* A world met twice in one loop is met for ever.
RECURSIVE goLoop(_, _, _, _)
goLoop(w, id, forward, seen) ==
  IF w.st # "ok" THEN w
  ELSE IF w.s.current = Nil \/ id = nodeId(w, w.s.current) THEN w
  ELSE IF w \in seen THEN [w EXCEPT !.st = "hang"]
  ELSE goLoop(IF forward THEN GoNext(w) ELSE GoPrev(w), id, forward, seen \cup {w})

GoTo(w, id) ==
  IF w.st # "ok" THEN w
  ELSE IF w.s.current = Nil THEN [w EXCEPT !.st = "panic"]
  ELSE IF w.s.current = Undef
  THEN IF w.s.prev # Nil /\ id <= nodeId(w, w.s.prev)
       THEN goLoop(GoPrev(w), id, FALSE, {})
       ELSE IF w.s.next # Nil
       THEN IF w.s.prev = Nil THEN [w EXCEPT !.st = "panic"]
            ELSE IF id >= nodeId(w, w.s.prev) THEN goLoop(GoNext(w), id, TRUE, {})
            ELSE w
       ELSE w
  ELSE IF id > nodeId(w, w.s.current) THEN goLoop(w, id, TRUE, {})
  ELSE IF id < nodeId(w, w.s.current) THEN goLoop(w, id, FALSE, {})
  ELSE w

SetHistorySize(w, size) == [w EXCEPT !.s.historySize = size]

\* Stream.Close: every node from the head on goes back to the pool; the
\* parser stays attached.
Close(w) ==
  IF w.st # "ok" THEN w
  ELSE [w EXCEPT !.p.pool = IF w.s.head = Undef \/ w.s.head = Nil THEN @
                            ELSE @ \cup (node(w, w.s.head)..Len(w.p.toks)),
                 !.s.freed = IF w.s.head = Undef \/ w.s.head = Nil THEN @
                             ELSE Len(w.p.toks),
                 !.s.next = Nil,
                 !.s.prev = Nil,
                 !.s.head = Undef,
                 !.s.current = Undef,
                 !.s.len = 0]

IsValid(w) == w.s.current # Nil /\ w.s.current # Undef

\* The value a lookahead returns, with the stream it leaves behind.
Answer(w, result) == [w |-> w, result |-> result]

\* Token.Is with one key, called on the token CurrentToken returns; the call
\* on a nil token dereferences nil.
currentIs(w, key) == nodeKey(w, w.s.current) = key

\* The enlargement of the history at the start of a lookahead over n keys.
seqEnlarge(w, n) ==
  IF w.s.historySize > 0 /\ w.s.historySize < n THEN [w EXCEPT !.s.historySize = n] ELSE w

\* hSize: the history size to put back, 0 when it was not enlarged.
seqHSize(w, n) ==
  IF w.s.historySize > 0 /\ w.s.historySize < n THEN w.s.historySize ELSE 0

\* The end of a lookahead: current goes back to start, the history size to
\* hSize.  A lookahead that panicked or never ended does not get here.
seqRestore(r, start, hSize) ==
  IF r.w.st # "ok" THEN r
  ELSE IF hSize # 0
  THEN Answer(SetHistorySize([r.w EXCEPT !.s.current = start], hSize), r.result)
  ELSE Answer([r.w EXCEPT !.s.current = start], r.result)

RECURSIVE seqLoop(_, _, _)
\* The test of keys[i] on the stream w1 that GoNext returned.
seqStep(w1, keys, i) ==
  IF w1.st # "ok" THEN Answer(w1, FALSE)
  ELSE IF w1.s.current = Nil THEN Answer([w1 EXCEPT !.st = "panic"], FALSE)
  ELSE IF currentIs(w1, keys[i]) THEN seqLoop(w1, keys, i + 1)
  ELSE Answer(w1, FALSE)

\* for _, key := range keys, from the i-th key on
seqLoop(w, keys, i) ==
  IF i > Len(keys) THEN Answer(w, TRUE) ELSE seqStep(GoNext(w), keys, i)

\* Stream.IsNextSequence
IsNextSequence(w, keys) ==
  IF w.st # "ok" THEN Answer(w, FALSE)
  ELSE seqRestore(seqLoop(seqEnlarge(w, Len(keys)), keys, 1), w.s.current,
                  seqHSize(w, Len(keys)))

RECURSIVE anyLoop(_, _, _), anyKeys(_, _, _, _)
\* The test of the j-th key of the i-th group on the stream w1 that GoNext
\* returned.
anyStep(w1, groups, i, j) ==
  IF w1.st # "ok" THEN Answer(w1, FALSE)
  ELSE IF w1.s.current = Nil THEN Answer([w1 EXCEPT !.st = "panic"], FALSE)
  ELSE IF currentIs(w1, groups[i][j]) THEN anyLoop(w1, groups, i + 1)
  ELSE anyKeys(w1, groups, i, j + 1)

\* for _, k := range key, from the j-th key of the i-th group on; GoNext is
\* called once for every key that is tried.
anyKeys(w, groups, i, j) ==
  IF j > Len(groups[i]) THEN Answer(w, FALSE) ELSE anyStep(GoNext(w), groups, i, j)

\* for _, key := range keys, from the i-th group on
anyLoop(w, groups, i) ==
  IF i > Len(groups) THEN Answer(w, TRUE) ELSE anyKeys(w, groups, i, 1)

\* Stream.IsAnyNextSequence
IsAnyNextSequence(w, groups) ==
  IF w.st # "ok" THEN Answer(w, FALSE)
  ELSE seqRestore(anyLoop(seqEnlarge(w, Len(groups)), groups, 1), w.s.current,
                  seqHSize(w, Len(groups)))

\* Stream.GetParsedLength: s.p is nil on a stream over a finished lexer.
GetParsedLength(w) == IF ~w.s.attached THEN w.s.parsed ELSE w.p.parsed + w.p.pos

\* The fields GetSnippet copies from the node x.
nodeToken(w, x) == slotToken(w, node(w, x))

\* What GetSnippet returns: the segment, or the panic of an index out of range.
Snippet(segment) == [segment |-> segment, panic |-> FALSE]

SnippetPanic == [segment |-> <<>>, panic |-> TRUE]

\* GetSnippet: the number of tokens before current, cut to the history.
snipBefore(w, before) ==
  IF w.s.current = Undef
  THEN IF w.s.prev # Nil /\ before > nodeId(w, w.s.prev) - nodeId(w, w.s.head)
       THEN nodeId(w, w.s.prev) - nodeId(w, w.s.head)
       ELSE 0
  ELSE IF before > nodeId(w, w.s.current) - nodeId(w, w.s.head)
  THEN nodeId(w, w.s.current) - nodeId(w, w.s.head)
  ELSE before

\* GetSnippet: the number of tokens after current, cut to the length.
snipAfter(w, before, after) ==
  IF after > w.s.len - before - 1 THEN w.s.len - before - 1 ELSE after

\* GetSnippet: the node the copy starts from.
snipPtr(w) ==
  IF w.s.next # Nil THEN w.s.next ELSE IF w.s.prev # Nil THEN w.s.prev ELSE w.s.current

RECURSIVE snipForward(_, _, _, _, _, _)
\* for p, i := ptr.next, 1; p != nil; p, i = p.next, i+1; segment[k] of the
\* code is segment[k + 1] here.
snipForward(w, segment, x, i, before, after) ==
  IF x = Nil THEN Snippet(segment)
  ELSE IF before + i < 0 \/ before + i >= Len(segment) THEN SnippetPanic
  ELSE IF i >= after THEN Snippet([segment EXCEPT ![before + i + 1] = nodeToken(w, x)])
  ELSE snipForward(w, [segment EXCEPT ![before + i + 1] = nodeToken(w, x)],
                   nodeNext(w, x), i + 1, before, after)

RECURSIVE snipBackward(_, _, _, _, _)
\* for p := ptr; p != nil; p, before = ptr.prev, before-1: every round copies
\* ptr itself.
snipBackward(w, segment, ptr, before, after) ==
  IF before < 0 \/ before >= Len(segment) THEN SnippetPanic
  ELSE IF before <= 0
  THEN snipForward(w, [segment EXCEPT ![before + 1] = nodeToken(w, ptr)],
                   nodeNext(w, ptr), 1, before, after)
  ELSE IF nodePrev(w, ptr) = Nil
  THEN snipForward(w, [segment EXCEPT ![before + 1] = nodeToken(w, ptr)],
                   nodeNext(w, ptr), 1, before - 1, after)
  ELSE snipBackward(w, [segment EXCEPT ![before + 1] = nodeToken(w, ptr)], ptr,
                    before - 1, after)

\* segment = make([]Token, before+after+1) and the two loops.
snipMake(w, before, after) ==
  IF before + after + 1 < 0 THEN SnippetPanic
  ELSE IF before + after + 1 = 0 THEN Snippet(<<>>)
  ELSE snipBackward(w, [k \in 1..(before + after + 1) |-> ZeroToken], snipPtr(w),
                    before, after)

\* GetSnippet with before already cut.
snipCut(w, before, after) == snipMake(w, before, snipAfter(w, before, after))

\* Stream.GetSnippet
GetSnippet(w, before, after) ==
  IF w.s.current = Nil THEN SnippetPanic ELSE snipCut(w, snipBefore(w, before), after)

----------------------------------------------------------------------------
(* The configurations and inputs of the model *)

\* The configuration of TestTokenizeInject.
CfgInject ==
  DefineStringToken(
    DefineTokens(DefineTokens(New, 10, << <<123, 123>> >>), 11, << <<125, 125>> >>),
    14, Str(<<34>>), Str(<<34>>), BackSlash, << [StartKey |-> 10, EndKey |-> 11] >>)

\* The line comment of the DefineStringToken documentation.
CfgComment == DefineStringToken(New, 1, Str(<<47, 47>>), Str(<<10>>), 0, <<>>)

CfgStop == StopOnUndefinedToken(New)

\* The quoted string with injections, lexed up to the first unknown byte.
CfgStopInject == StopOnUndefinedToken(CfgInject)

Configs == {"default", "inject", "escape", "comment", "stop", "stopinject"}

Config(c) ==
  CASE c = "default" -> New
    [] c = "inject" -> CfgInject
    [] c = "escape" -> CfgInject
    [] c = "comment" -> CfgComment
    [] c = "stop" -> CfgStop
    [] c = "stopinject" -> CfgStopInject

\* The pieces inputs are made of, per configuration.
Atoms(c) ==
  CASE c = "default" ->
         {<<97>>, <<49>>, <<32>>, <<93>>, <<0>>, <<224, 184, 129>>}
    [] c = "inject" ->
         {<<34>>, <<125, 125>>, <<97>>, <<97, 10>>, <<34, 123, 123>>}
    [] c = "escape" -> {<<34>>, <<92>>, <<97>>, <<123, 123>>}
    [] c = "comment" -> {<<47, 47>>, <<10>>, <<97>>, <<32>>, <<47>>}
    [] c = "stop" -> {<<97>>, <<32>>, <<93>>, <<49>>}
    [] c = "stopinject" -> {<<34, 123, 123>>, <<125, 125, 34>>, <<93>>, <<97>>}

RECURSIVE Flatten(_)
Flatten(ss) == IF Len(ss) = 0 THEN <<>> ELSE ss[1] \o Flatten(Tail(ss))

Inputs(c) == {Flatten(a) : a \in UNION {[1..k -> Atoms(c)] : k \in 0..MaxAtoms}}

ChunkSizes == (1..MaxChunk) \cup {0}

----------------------------------------------------------------------------
(* The state machine *)

\* Return registers of the operators carry nothing between calls.
Settle(q) == [q EXCEPT !.ret = FALSE, !.retn = 0, !.mark = -1, !.qmark = -1, !.fate = 0]

NoParser == newParser(New, <<>>)

NoStream == NewStream(NoParser)

Init ==
  /\ \E c \in Configs :
       /\ input \in Inputs(c)
       /\ \E u \in Builds(input) : t = OnBuild(Config(c), u)
  /\ mode = "new"
  /\ p = NoParser
  /\ s = NoStream
  /\ status = "ok"

Commit(w, m) ==
  /\ p' = Settle(w.p)
  /\ s' = w.s
  /\ status' = w.st
  /\ mode' = m
  /\ UNCHANGED <<t, input>>

\* The return of ParseBytes: no stream when parse panicked.
FiniteWorld(q) ==
  IF q.panic THEN World(NoStream, q, "panic") ELSE World(NewStream(q), q, "ok")

\* The return of ParseStream: no stream when parse panicked.
InfWorld(q) ==
  IF q.panic THEN World(NoStream, q, "panic") ELSE World(NewInfStream(q), q, "ok")

\* Tokenizer.ParseString / ParseBytes
ParseBytes ==
  /\ mode = "new"
  /\ Commit(FiniteWorld(parse(newParser(t, input))), "parsed")

\* Tokenizer.ParseStream over a bytes.Buffer holding the input
ParseStream ==
  /\ mode = "new"
  /\ \E bufferSize \in ChunkSizes :
       Commit(InfWorld(parse(preload(newInfParser(t, input, bufferSize)))), "parsed")

Usable == mode \in {"parsed", "set", "walk"} /\ status = "ok"

\* mode remembers how far the program has come: "parsed" after the
\* constructor, "set" after a SetHistorySize chained to it, "walk" once the
\* stream has been stepped through or closed.
Resized == IF mode = "walk" THEN "walk" ELSE "set"

\* Stream.SetHistorySize
DoSetHistorySize ==
  /\ Usable
  /\ \E size \in 1..MaxHistory :
       Commit(SetHistorySize(World(s, p, status), size), Resized)

\* The stream and its parser at the start of a call in which the calls of
\* sync.Pool.Get have the outcomes fate.
Fated(fate) == World(s, [p EXCEPT !.fate = fate], status)

\* The outcomes to tell apart in a call that parses before it evicts: with
\* an empty pool Get makes a new node.
StepFates == IF s.attached /\ p.pool # EmptyPool THEN 0..MaxFate ELSE {0}

\* The outcomes to tell apart in a call that steps several times: a step may
\* evict a node that the parse of a later step takes.
Fates ==
  IF s.attached /\ (p.pool # EmptyPool \/ s.historySize # 0) THEN 0..MaxFate ELSE {0}

\* The world a call has left, the registers of the call settled.
Left(w) == [w EXCEPT !.p = Settle(w.p)]

\* The worlds a call can leave: w0 when every Get makes a new node, others
\* for the other outcomes. A call that took no node has one outcome.
Outcomes(w0, others) ==
  IF Len(w0.p.took) = Len(p.took) THEN {w0} ELSE {w0} \cup others

DoGoNext ==
  /\ Usable
  /\ \E w \in Outcomes(Left(GoNext(Fated(0))),
                       {Left(GoNext(Fated(fate))) : fate \in StepFates}) :
       Commit(w, "walk")

DoGoPrev == Usable /\ Commit(GoPrev(World(s, p, status)), "walk")

DoGoTo ==
  /\ Usable
  /\ \E id \in -1..Len(p.toks) :
       \E w \in Outcomes(Left(GoTo(Fated(0), id)),
                          {Left(GoTo(Fated(fate), id)) : fate \in Fates}) :
          Commit(w, "walk")

\* Stream.Close
DoClose == Usable /\ Commit(Close(World(s, p, status)), "walk")

\* The keys a lookahead asks for, and the groups of alternatives.
LookKeys == {TokenKeyword}

LookGroups == {<<TokenInteger, TokenKeyword>>}

SeqsOver(S) == UNION {[1..n -> S] : n \in 1..MaxKeys}

DoIsNextSequence ==
  /\ Usable
  /\ \E keys \in SeqsOver(LookKeys) :
       \E w \in Outcomes(Left(IsNextSequence(Fated(0), keys).w),
                          {Left(IsNextSequence(Fated(fate), keys).w) : fate \in Fates}) :
          Commit(w, "walk")

DoIsAnyNextSequence ==
  /\ Usable
  /\ \E groups \in SeqsOver(LookGroups) :
       \E w \in Outcomes(Left(IsAnyNextSequence(Fated(0), groups).w),
                          {Left(IsAnyNextSequence(Fated(fate), groups).w) : fate \in Fates}) :
          Commit(w, "walk")

\* The construction of a stream and the steps through it.
Walk ==
  \/ ParseBytes \/ ParseStream \/ DoSetHistorySize \/ DoGoNext \/ DoGoPrev \/ DoGoTo
  \/ DoClose

Next == Walk \/ DoIsNextSequence \/ DoIsAnyNextSequence

Spec == Init /\ [][Next]_vars

\* The streams that are stepped through without lookahead.
SpecWalk == Init /\ [][Walk]_vars

----------------------------------------------------------------------------
(* The lexer alone: tokenizers that differ in their rules, each lexed by *)
(* ParseBytes and by ParseStream.                                        *)

\* Literals that compete with a keyword, a number and a frame start.
CfgOrder ==
  DefineStringToken(
    DefineTokens(DefineTokens(DefineTokens(New, 11, << <<97, 98>> >>), 12, << <<49>> >>),
                 13, << <<34>> >>),
    14, Str(<<34>>), Str(<<34>>), 0, <<>>)

\* The orders a list of patterns can be passed in.
Orders(seq) ==
  {[i \in 1..Len(seq) |-> seq[f[i]]] :
     f \in {g \in [1..Len(seq) -> 1..Len(seq)] : \A i, j \in 1..Len(seq) : g[i] = g[j] => i = j}}

\* The comparison signs, one the beginning of the other.
ComparePatterns == << <<60>>, <<60, 61>>, <<60, 61, 62>> >>

CfgCompare(patterns) == DefineTokens(New, 11, patterns)

\* The ways an injection can begin, one the beginning of the other.
BracePatterns == << <<123>>, <<123, 123>> >>

\* A quoted string with injections which begin in one of several ways.
CfgBraces(patterns) ==
  DefineStringToken(
    DefineTokens(DefineTokens(New, 10, patterns), 11, << <<125>> >>),
    14, Str(<<34>>), Str(<<34>>), 0, << [StartKey |-> 10, EndKey |-> 11] >>)

\* The patterns a key is given first, and the patterns it is given afterwards.
FirstPatterns == << <<60>>, <<60, 61>> >>
SecondPatterns == << <<60, 61>>, <<62>> >>

\* A key defined twice.
CfgRedefine == DefineTokens(DefineTokens(New, 11, FirstPatterns), 11, SecondPatterns)

\* Numbers written with underscores.
CfgUnderscore == AllowNumberUnderscore(New)

\* Keywords that may hold digits, `@` and `.`.
CfgKeyword == AllowDotInKeyword(AllowAtInKeyword(AllowNumbersInKeyword(New)))

\* Seven patterns that begin with one byte, two of them the same pattern
\* under two keys, the longest defined last: a bucket the ShellSort pass of
\* quickSort_func changes.
CfgBucket(tk) ==
  DefineTokens(
    DefineTokens(
      DefineTokens(
        DefineTokens(
          DefineTokens(
            DefineTokens(
              DefineTokens(tk, 10, << <<60, 97>> >>),
              11, << <<60, 97>> >>),
            12, << <<60, 98>> >>),
          13, << <<60, 99>> >>),
        14, << <<60, 100>> >>),
      15, << <<60, 101>> >>),
    16, << <<60, 61, 61>> >>)

\* A frame whose start token is an empty string: the constant "" or a string
\* cut at run time.
CfgCut(startToken) == DefineStringToken(New, 14, startToken, Str(<<34>>), 0, <<>>)

LexConfigs == {"order", "compare", "braces", "redefine", "numbers", "underscore", "keyword",
               "frames", "exponent", "escapes", "nulls", "letters", "bucket", "cut"}

\* The tokenizers of a name: the same rules, in each order they can be given.
LexConfig(c) ==
  CASE c = "order" -> {CfgOrder}
    [] c = "compare" -> {CfgCompare(o) : o \in Orders(ComparePatterns)}
    [] c = "braces" -> {CfgBraces(o) : o \in Orders(BracePatterns)}
    [] c = "redefine" -> {CfgRedefine}
    [] c = "numbers" -> {New}
    [] c = "underscore" -> {CfgUnderscore}
    [] c = "keyword" -> {CfgKeyword}
    [] c = "frames" -> {CfgInject}
    [] c = "exponent" -> {New}
    [] c = "escapes" -> {CfgInject}
    [] c = "nulls" -> {CfgInject}
    [] c = "letters" -> {New}
    [] c = "bucket" -> {CfgBucket(NewOn(srt)) : srt \in Sorts}
    [] c = "cut" -> {CfgCut(Str(<<>>)), CfgCut(CutEmpty)}

\* The pieces inputs are made of, per tokenizer.
LexAtoms(c) ==
  CASE c = "order" -> {<<97>>, <<98>>, <<49>>, <<34>>, <<32>>}
    [] c = "compare" -> {<<60>>, <<61>>, <<62>>}
    [] c = "braces" -> {<<34>>, <<123>>, <<125>>, <<97>>}
    [] c = "redefine" -> {<<60>>, <<61>>, <<62>>}
    [] c = "numbers" -> {<<49>>, <<50>>, <<46>>}
    [] c = "underscore" -> {<<49>>, <<95>>, <<46>>}
    [] c = "keyword" -> {<<97>>, <<49>>, <<64>>, <<46>>}
    [] c = "frames" -> {<<34>>, <<123, 123>>, <<125, 125>>, <<97>>, <<34, 123, 123>>, <<125, 125, 34>>}
    [] c = "exponent" -> {<<48>>, <<49>>, <<50>>, <<101>>, <<69>>, <<45>>, <<43>>, <<115>>}
    [] c = "escapes" -> {<<34>>, <<92>>, <<97>>, <<123, 123>>, <<123>>, <<125, 125>>,
                         <<34, 123, 123, 125, 125>>}
    [] c = "nulls" -> {<<0>>, <<34>>, <<97>>, <<49>>, <<32>>, <<125, 125>>, <<34, 123, 123>>}
    [] c = "letters" -> {<<97>>, <<32>>, <<224, 161, 176>>, <<240, 177, 141, 144>>}
    [] c = "bucket" -> {<<60, 97>>, <<60, 101>>, <<60, 61, 61>>, <<60, 61>>}
    [] c = "cut" -> {<<34>>, <<97>>, <<32>>}

LexInputs(c) == {Flatten(a) : a \in UNION {[1..k -> LexAtoms(c)] : k \in 0..MaxLexAtoms}}

InitLex ==
  /\ \E c \in LexConfigs :
       /\ input \in LexInputs(c)
       /\ \E tk \in LexConfig(c), u \in Builds(input) : t = OnBuild(tk, u)
  /\ mode = "new"
  /\ p = NoParser
  /\ s = NoStream
  /\ status = "ok"

Lex == ParseBytes \/ ParseStream

SpecLex == InitLex /\ [][Lex]_vars

----------------------------------------------------------------------------
(* Readers that end with io.EOF or with another error, returned with the *)
(* last bytes or by the Read after them.                                 *)

ReadAtoms == {<<97>>, <<49>>, <<32>>, <<93>>, <<97, 98>>}

ReadInputs == {Flatten(a) : a \in UNION {[1..k -> ReadAtoms] : k \in 0..MaxAtoms}}

Faults == {EOF, ErrBroken}

InitRead ==
  /\ input \in ReadInputs
  /\ \E u \in Builds(input) : t = OnBuild(New, u)
  /\ mode = "new"
  /\ p = NoParser
  /\ s = NoStream
  /\ status = "ok"

\* Tokenizer.ParseStream over such a reader
ParseReader ==
  /\ mode = "new"
  /\ \E bufferSize \in ChunkSizes, fault \in Faults, eager \in BOOLEAN :
       \E held \in 0..Len(input) :
          Commit(InfWorld(parse(preload(newReaderParser(t, input, bufferSize, fault,
                                                        eager, held)))),
                 "parsed")

Reading == ParseReader \/ DoGoNext

SpecRead == InitRead /\ [][Reading]_vars

----------------------------------------------------------------------------
(* Properties of the lexer and of the stream *)

\* The stream, its parser and the outcome of the last call, as one world.
Now == World(s, p, status)

\* The parser reads from a reader (ParseStream), not from a byte slice.
Streaming == p.chunkSize > 0

NoNull(b) == \A i \in 1..Len(b) : b[i] # 0

RECURSIVE TrimNulls(_)
TrimNulls(b) ==
  IF Len(b) > 0 /\ b[Len(b)] = 0 THEN TrimNulls(SubSeq(b, 1, Len(b) - 1)) ELSE b

\* Token.indent followed by Token.value, over the tokens in emission order.
RECURSIVE Concat(_)
Concat(toks) ==
  IF Len(toks) = 0 THEN <<>>
  ELSE toks[1].indent \o toks[1].value \o Concat(Tail(toks))

\* Nothing is left to read: no reader and the cursor at the end of the buffer.
Exhausted(q) == ~q.reader /\ q.pos >= Len(q.str)

\* The lexer has returned for the last time: ParseBytes has returned, or in
\* streaming mode the reader is drained and the cursor ran off the data.
LexingDone ==
  /\ mode # "new"
  /\ ~p.panic
  /\ Streaming => (~p.reader /\ p.curr = 0)

\* C1: tokenizing never aborts with an out-of-range access into the input
\* buffer, in finite mode and in streaming mode, whatever the input.
C1_ParseNeverAborts == ~p.panic

RECURSIVE WalkAll(_)
WalkAll(w) == IF w.st # "ok" \/ ~IsValid(w) THEN w ELSE WalkAll(GoNext(w))

\* The parser after the walk from the present state.
AtEnd == WalkAll(Now).p

TokenView(tok) == <<tok.key, tok.value, tok.indent, tok.offset, tok.line>>

Views(toks) == [i \in 1..Len(toks) |-> TokenView(toks[i])]

\* Neither lexer aborted and the two emitted the same tokens.
SameTokens(f, g) == (~f.panic /\ ~g.panic) => Views(g.toks) = Views(f.toks)

\* C3: for an input without null bytes and every chunk size, the tokens the
\* streaming lexer emits over its calls of parse have the key, value, indent,
\* offset and line of the tokens the finite lexer emits.
C3_StreamEqualsFinite ==
  (mode = "parsed" /\ Streaming /\ NoNull(input))
    => SameTokens(parse(newParser(t, input)), AtEnd)

\* The call of parse that turned q into r emitted a token.
Emitted(q, r) == ~r.panic /\ r.n > q.n

\* The next call of parse would emit a token.
MoreToEmit(q) == Emitted(q, parse(q))

\* C4: in streaming mode GoNext parks the stream on the undefined token after
\* the last node only when the lexer has nothing more to produce.
C4_ParksOnlyAtTheEnd ==
  (s.attached /\ status = "ok" /\ s.current = Undef /\ node(Now, s.prev) = Len(p.toks)
     /\ Len(p.toks) > 0)
    => ~MoreToEmit(p)

\* C5: the first token emitted has id 0, a node and its successor in the list
\* have ids that differ by one, and no node of the list has the id -1 of the
\* undefined token.
C5_DenseIds ==
  /\ nodeId(Now, Undef) = -1
  /\ \A x \in 1..Len(p.toks) :
       /\ p.toks[x].id = x - 1
       /\ Linked(Now, x) => nodeId(Now, x) # -1
       /\ (Linked(Now, x) /\ nodeNext(Now, x) # Nil)
            => nodeId(Now, nodeNext(Now, x)) = nodeId(Now, x) + 1

\* A streamed list that lost its head to the history limit and still links
\* two nodes.
C5_Witness ==
  /\ s.attached /\ status = "ok"
  /\ s.freed > 0
  /\ Len(p.toks) - s.freed >= 2

\* C6: a token's offset plus the length of its value plus the length of the
\* next token's indent is the next token's offset.
C6_OffsetsAdjacent ==
  \A x \in 1..(Len(p.toks) - 1) :
    p.toks[x].offset + Len(p.toks[x].value) + Len(p.toks[x + 1].indent)
      = p.toks[x + 1].offset

\* A streamed token of several bytes followed by a token with an indent.
C6_Witness ==
  /\ Streaming /\ status = "ok"
  /\ \E x \in 1..(Len(p.toks) - 1) :
       Len(p.toks[x].value) > 1 /\ Len(p.toks[x + 1].indent) > 0

\* C7: a token's value is the bytes of the input from its offset on.
C7_ValueIsInputSlice ==
  \A x \in 1..Len(p.toks) :
    /\ p.toks[x].offset + Len(p.toks[x].value) <= Len(input)
    /\ p.toks[x].value
         = SubSeq(input, p.toks[x].offset + 1, p.toks[x].offset + Len(p.toks[x].value))

\* The line feeds of the input before the byte at offset.
RECURSIVE LineFeedsBefore(_, _)
LineFeedsBefore(b, offset) ==
  IF offset <= 0 THEN 0
  ELSE (IF offset <= Len(b) /\ b[offset] = newLine THEN 1 ELSE 0)
         + LineFeedsBefore(b, offset - 1)

\* C8: a token's line is one more than the number of line feeds of the input
\* before its offset.
C8_LineCountsLineFeeds ==
  \A x \in 1..Len(p.toks) :
    p.toks[x].line = 1 + LineFeedsBefore(input, p.toks[x].offset)

\* C9: whatever GoNext, GoPrev and GoTo calls are made, the current token is
\* never nil.
C9_CurrentNeverNil == s.current # Nil

\* The stream stands on its last token, or on the undefined token past it, and
\* its parser, if it has one, has no input left.
AtTheEnd ==
  /\ Usable
  /\ s.current # Nil
  /\ nodeNext(Now, s.current) = Nil
  /\ s.current = Undef => s.prev # Nil
  /\ s.attached => Exhausted(p)

\* C10: a GoNext at the end of the stream leaves the stream on the undefined
\* token, so that IsValid stays false however often it is repeated.
C10_GoNextStaysAtTheEnd ==
  [][(AtTheEnd /\ DoGoNext) => (s'.current = Undef /\ ~IsValid(World(s', p', status')))]_vars

\* ---------------------------------------------------------------------------
\* current of the stream w is the node the pointer x refers to.
BackOn(w, x) == w.s.current # Nil /\ node(w, w.s.current) = node(w, x)

\* C11: a step out of bounds is undone by the opposite step.  When current is
\* the last token, GoNext followed by GoPrev ends on that token again; when
\* current is the head token, GoPrev followed by GoNext ends on the head again.
C11_OutOfBoundsReversible ==
  (Usable /\ IsValid(Now) /\ Linked(Now, node(Now, s.current))) =>
     /\ (nodeNext(Now, s.current) = Nil => BackOn(GoPrev(GoNext(Now)), s.current))
     /\ (nodePrev(Now, s.current) = Nil => BackOn(GoNext(GoPrev(Now)), s.current))

\* ---------------------------------------------------------------------------
\* The history window (SetHistorySize chained to the constructor).
After == World(s', p', status')

Max(a, b) == IF a > b THEN a ELSE b

\* current is a node of the list.
RealCurrent(w) == w.st = "ok" /\ IsValid(w) /\ Linked(w, node(w, w.s.current))

HistoryOn == Usable /\ s.historySize > 0

HeadLag(w) == nodeId(w, w.s.current) - nodeId(w, w.s.head)

HeadAt(w) == nodeId(w, w.s.head) = Max(0, nodeId(w, w.s.current) - w.s.historySize)

\* C12 as stated: with a history size h > 0, in every reachable state where
\* current is a real token the head id equals max(0, current.id - h).
C12_HeadFollowsCurrent == (HistoryOn /\ RealCurrent(Now)) => HeadAt(Now)

\* The pointer x of the stream is no node of the list, or a node with an id
\* at most h above the id of the head.
Near(w, x) ==
  (x # Nil /\ x # Undef /\ Linked(w, node(w, x)))
    => nodeId(w, x) - nodeId(w, w.s.head) <= w.s.historySize

\* The head is within h of the token the stream stands on, or has left to
\* park after the last one.
Bounded(w) == Near(w, w.s.current) /\ Near(w, w.s.prev)

\* A step of a stream with a history size h > 0 that leaves h as it is.
HistoryKept == HistoryOn /\ status' = "ok" /\ s'.historySize = s.historySize

\* C12, amended: with a history size h > 0 set at construction the head id
\* is never below max(0, current.id - h) while current is a real token: the
\* bound holds when the constructor and the SetHistorySize chained to it have
\* returned and every step that leaves h alone keeps it. A GoNext from a real
\* token to a real token keeps the head id equal to max(0, current.id - h)
\* when it was equal before, so the equality holds along a forward-only walk.
C12_HeadFollowsForwardSteps ==
  [][/\ (HistoryOn /\ mode # "walk") => Bounded(Now)
     /\ (HistoryKept /\ Bounded(Now)) =>
          /\ Bounded(After)
          /\ (RealCurrent(Now) /\ RealCurrent(After) /\ HeadAt(Now) /\ DoGoNext)
               => HeadAt(After)]_vars

\* A forward walk that has evicted the first token.
C12_Witness ==
  /\ HistoryOn /\ RealCurrent(Now) /\ mode = "walk"
  /\ nodeId(Now, s.head) > 0
  /\ HeadAt(Now)

\* The number of nodes a step has released from the head of the list.
Evicted == s'.freed - s.freed

\* The id of the token a step has moved onto is more than h above the id of
\* the head the step started with.
LagsBehind == nodeId(After, s'.current) - nodeId(Now, s.head) > s.historySize

\* C13: with a history size h > 0 set before any navigation and not changed,
\* current.id - head.id <= h whenever current is a real token: the bound
\* holds before the first step and every step that leaves h alone keeps it.
\* A GoNext evicts one node at most, it evicts only when the token it moved
\* onto has an id more than h above the head id, and it always evicts then
\* when it has moved along the list; each eviction takes one off len; a
\* GoPrev changes neither head nor len and evicts nothing.
C13_BoundedHistory ==
  [][/\ (HistoryOn /\ mode # "walk" /\ RealCurrent(Now)) => HeadLag(Now) <= s.historySize
     /\ HistoryKept =>
          /\ (Bounded(Now) /\ RealCurrent(After)) => HeadLag(After) <= s.historySize
          /\ DoGoNext =>
               /\ Evicted \in {0, 1}
               /\ Evicted = 1 => LagsBehind
               /\ (nodeNext(Now, s.current) # Nil /\ LagsBehind) => Evicted = 1
               /\ s'.len = s.len + (p'.n - p.n) - Evicted
          /\ DoGoPrev => (s'.head = s.head /\ s'.len = s.len /\ Evicted = 0)]_vars

\* A step back after an eviction: the head is closer than h to current.
C13_Witness ==
  /\ HistoryOn /\ RealCurrent(Now)
  /\ s.freed > 0
  /\ s.len = p.n - s.freed
  /\ HeadLag(Now) < s.historySize

\* ---------------------------------------------------------------------------
\* Lookahead.
\* The stream r.w a lookahead returned on has current where it was in the
\* state, still linked when it is a token, and the history size of the state.
PositionNeutral(r) ==
  r.w.st = "ok" =>
     /\ r.w.s.current = s.current
     /\ IsValid(Now) => Linked(r.w, node(r.w, s.current))
     /\ r.w.s.historySize = s.historySize

\* current is a token of the list or the sentinel.
RealOrSentinel ==
  s.current = Undef \/ (s.current # Nil /\ Linked(Now, node(Now, s.current)))

\* The keys and groups the lookahead is asked with.
AskKeys == {TokenKeyword, TokenInteger, TokenUndef}

AskGroups == {<<TokenKeyword>>, <<TokenInteger, TokenKeyword>>}

\* C14: IsNextSequence and IsAnyNextSequence are position-neutral: when either
\* returns, whatever its result and the history size, also at the end of the
\* stream, current is the token it was before the call, that token is still
\* linked in the list, and historySize has its value from before the call.
C14_LookaheadPositionNeutral ==
  (Usable /\ RealOrSentinel) =>
     /\ \A keys \in SeqsOver(AskKeys) : PositionNeutral(IsNextSequence(Now, keys))
     /\ \A groups \in SeqsOver(AskGroups) : PositionNeutral(IsAnyNextSequence(Now, groups))

\* The tokens of the whole stream: those in the list and those the lexer has
\* still to produce.
AllTokens == AtEnd.toks

\* The k-th token of the input exists and has one of the keys of the group.
TokenAt(k, group) ==
  /\ k <= Len(AllTokens)
  /\ \E j \in 1..Len(group) : AllTokens[k].key = group[j]

\* The i-th token after current exists and has one of the keys of the group.
TokenAhead(i, group) == TokenAt(node(Now, s.current) + i, group)

\* The answer of a lookahead that returned.
Answers(r, expected) == r.w.st = "ok" => r.result = expected

\* C15: IsNextSequence(k1, ..., kn) is true exactly when there are at least n
\* tokens after current and the i-th of them has the key ki; it is false when
\* the sequence is longer than what is left of the stream.
C15_IsNextSequenceExact ==
  (Usable /\ RealCurrent(Now)) =>
     \A keys \in SeqsOver(AskKeys) :
        Answers(IsNextSequence(Now, keys),
                \A i \in 1..Len(keys) : TokenAhead(i, <<keys[i]>>))

\* C16: IsAnyNextSequence(g1, ..., gn) is true exactly when for every i the
\* i-th token after current exists and its key is one of the keys of gi, at
\* whichever position of gi that key stands: a group takes up one token of the
\* lookahead.  Stated for a stream that was lexed to the end at construction.
C16_IsAnyNextSequenceExact ==
  (Usable /\ RealCurrent(Now) /\ ~s.attached) =>
     \A groups \in SeqsOver(AskGroups) :
        Answers(IsAnyNextSequence(Now, groups),
                \A i \in 1..Len(groups) : TokenAhead(i, groups[i]))

\* ---------------------------------------------------------------------------
\* The stream w is on the token whose id is id.
OnToken(w, id) == RealCurrent(w) /\ nodeId(w, w.s.current) = id

\* C17: GoTo(id), called while current is a real token and id is the id of a
\* token that has not been evicted (head.id <= id, a token still to be lexed
\* included), ends with current on the token whose id is id.
C17_GoToReachesToken ==
  (Usable /\ RealCurrent(Now)) =>
     \A id \in nodeId(Now, s.head)..(Len(AllTokens) - 1) : OnToken(GoTo(Now, id), id)

\* ---------------------------------------------------------------------------
\* The largest before and after GetSnippet is asked for.
MaxSnippet == 2

\* The ids of a segment.
SegmentIds(r) == [k \in 1..Len(r.segment) |-> r.segment[k].id]

\* The ids from first to last.
IdRange(first, last) == [k \in 1..(last - first + 1) |-> first + k - 1]

\* The segment has the ids c - min(before, tokens before) ... c + min(after,
\* tokens after), where c is the id of current.
SnippetAround(r, before, after) ==
  /\ ~r.panic
  /\ SegmentIds(r) = IdRange(nodeId(Now, s.current) - Min(before, HeadLag(Now)),
                             nodeId(Now, s.current) + Min(after, Len(p.toks) - node(Now, s.current)))

\* C18: GetSnippet(before, after) returns b + a + 1 tokens with the ids
\* current.id - b, ..., current.id + a, where b = min(before, current.id -
\* head.id) and a = min(after, number of tokens after current), wherever
\* current stands and whatever steps out of bounds were made before.
C18_SnippetAroundCurrent ==
  (Usable /\ RealCurrent(Now)) =>
     \A before, after \in 0..MaxSnippet :
        SnippetAround(GetSnippet(Now, before, after), before, after)

\* ---------------------------------------------------------------------------
\* Stop on the first unknown byte.
StopsOnUnknown == fStopOnUnknown \in t.flags

\* The same tokenizer without the flag, on the whole input: its first token
\* with the key TokenUnknown stands on the first byte nothing matches.
Unflagged == parse(newParser([t EXCEPT !.flags = @ \ {fStopOnUnknown}], input))

FirstUnknown(toks) ==
  IF \E i \in 1..Len(toks) : toks[i].key = TokenUnknown
  THEN CHOOSE i \in 1..Len(toks) :
         /\ toks[i].key = TokenUnknown
         /\ \A j \in 1..(i - 1) : toks[j].key # TokenUnknown
  ELSE Len(toks) + 1

\* The tokens in front of the first byte nothing matches.
BeforeUnknown(toks) == SubSeq(toks, 1, FirstUnknown(toks) - 1)

\* The lexer q stopped where r met its first unknown byte.
StoppedAt(q, r) == (~q.panic /\ ~r.panic) => Views(q.toks) = Views(BeforeUnknown(r.toks))

\* C19: with stop-on-unknown set, the lexer emits no token with the key
\* TokenUnknown and halts at the first byte that nothing matches: it emits the
\* tokens in front of that byte and no token for that byte or a later one,
\* also when the byte stands inside an injection.  Stated for ParseBytes.
C19_StopsAtFirstUnknown ==
  (mode # "new" /\ StopsOnUnknown /\ ~s.attached) =>
     /\ \A i \in 1..Len(p.toks) : p.toks[i].key # TokenUnknown
     /\ StoppedAt(p, Unflagged)

\* ---------------------------------------------------------------------------
\* The lexer of the other kind met a byte nothing matches.
MetUnknown(r) == ~r.panic /\ FirstUnknown(r.toks) <= Len(r.toks)

\* The lexer of the other kind matched every byte.
MetNoUnknown(r) == ~r.panic /\ FirstUnknown(r.toks) > Len(r.toks)

\* Stop-on-unknown halted the lexer at the first byte nothing matches.
Halted == StopsOnUnknown /\ MetUnknown(Unflagged) /\ StoppedAt(p, Unflagged)

\* The input was lexed to the end.
LexedToTheEnd == ~StopsOnUnknown \/ MetNoUnknown(Unflagged)

\* The offset of the first token with the key TokenUnknown.
UnknownOffset(toks) == toks[FirstUnknown(toks)].offset

\* GetParsedLength on a tokenizer that stops on unknown bytes, against the
\* lexing r of the same input without the flag: the length of the input when
\* r met no unknown byte, the offset of the first one when the lexer halted
\* there.
ParsedLengthAgainst(r) ==
  /\ MetNoUnknown(r) => GetParsedLength(Now) = Len(input)
  /\ (MetUnknown(r) /\ StoppedAt(p, r)) => GetParsedLength(Now) = UnknownOffset(r.toks)

\* C20: GetParsedLength is the number of input bytes consumed: the length of
\* the input when ParseBytes lexed an input without null bytes to the end,
\* whatever its last byte, and the offset of the first byte nothing matches
\* when stop-on-unknown halted the lexer there.
C20_ParsedLength ==
  (mode # "new" /\ status = "ok" /\ ~s.attached /\ NoNull(input)) =>
     IF StopsOnUnknown
     THEN ParsedLengthAgainst(Unflagged)
     ELSE GetParsedLength(Now) = Len(input)

\* The lexer halted on a byte after a token and a space.
C20_Witness ==
  /\ mode # "new" /\ status = "ok" /\ ~s.attached /\ NoNull(input)
  /\ Halted
  /\ Len(p.toks) > 0
  /\ p.toks[Len(p.toks)].offset + Len(p.toks[Len(p.toks)].value) < GetParsedLength(Now)
  /\ GetParsedLength(Now) < Len(input)

\* ---------------------------------------------------------------------------
\* The rules of the lexer.
\* ParseBytes has returned.
Lexed == mode = "parsed" /\ ~s.attached /\ ~p.panic

\* The literal patterns of the tokenizer, with their keys.
Literals == UNION {{t.index[h][i] : i \in 1..Len(t.index[h])} : h \in DOMAIN t.index}

\* The bytes r stand in the input from the offset off on.
StandsAt(r, off) ==
  /\ off + Len(r) <= Len(input)
  /\ \A i \in 1..Len(r) : input[off + i] = r[i]

\* The token is a literal that stands at its offset.
IsLiteralToken(tok) ==
  \E ref \in Literals :
     ref.Key = tok.key /\ ref.Token = tok.value /\ StandsAt(ref.Token, tok.offset)

\* The keys that end an injection of the frame settings number qi.
EndKeys(qi) == {t.quotes[qi].Injects[j].EndKey : j \in 1..Len(t.quotes[qi].Injects)}

\* The token goes on with a frame after an injection: it is a fragment and
\* the token before it ends an injection of its frame where the fragment
\* starts.  Such a token starts inside the frame, where the rules of the
\* lexer are not tried.
ContinuesFrame(toks, i) ==
  /\ toks[i].key = TokenStringFragment
  /\ i > 1
  /\ toks[i - 1].key \in EndKeys(toks[i].string)
  /\ toks[i - 1].offset + Len(toks[i - 1].value) = toks[i].offset

\* C21: where a token starts by the rules of the lexer and a literal pattern
\* stands, the token is a literal with its user key, also when a keyword, a
\* number or the start of a frame could begin there.  Stated for ParseBytes.
C21_LiteralFirst ==
  Lexed =>
     \A i \in 1..Len(p.toks) :
        (/\ ~ContinuesFrame(p.toks, i)
         /\ \E ref \in Literals : StandsAt(ref.Token, p.toks[i].offset))
          => IsLiteralToken(p.toks[i])

\* Literals of letters, of a digit and of a frame start were emitted.
C21_Witness ==
  /\ Lexed
  /\ \E i, j, k \in 1..Len(p.toks) :
        /\ p.toks[i].key = 11 /\ p.toks[i].value = <<97, 98>>
        /\ p.toks[j].key = 12 /\ p.toks[j].value = <<49>>
        /\ p.toks[k].key = 13 /\ p.toks[k].value = <<34>>

\* The tokenizers made of the patterns of t, passed in another order.
Reordered == UNION {LexConfig(c) : c \in {d \in LexConfigs : t \in LexConfig(d)}}

\* The two lexers aborted alike and emitted the same tokens.
SameLexing(f, g) == f.panic = g.panic /\ Views(f.toks) = Views(g.toks)

\* C22: the tokens emitted for an input do not depend on the order in which
\* the literal patterns were passed to DefineTokens.  Stated for ParseBytes.
C22_OrderInvariant ==
  (mode = "parsed" /\ ~Streaming)
    => \A t2 \in Reordered : SameLexing(parse(newParser(t2, input)), p)

\* C23: after DefineTokens(k, A) and then DefineTokens(k, B), the tokens of
\* key k are patterns of B only: a pattern of A that is not in B is not
\* matched any more.  Stated for ParseBytes.
C23_RedefinitionRewrites ==
  (Lexed /\ t = CfgRedefine)
    => \A i \in 1..Len(p.toks) :
          p.toks[i].key = 11
            => \E j \in 1..Len(SecondPatterns) : p.toks[i].value = SecondPatterns[j]

\* The key, the value and the offset of each token.
KeyValueOffset(toks) == [i \in 1..Len(toks) |-> <<toks[i].key, toks[i].value, toks[i].offset>>]

\* C24: with the default tokenizer the input `1..2` gives Integer `1` at
\* offset 0, Unknown `.` at offset 1 and Float `.2` at offset 2.
C24_OneDotDotTwo ==
  (Lexed /\ t = New /\ input = <<49, 46, 46, 50>>)
    => KeyValueOffset(p.toks) = << <<TokenInteger, <<49>>, 0>>,
                                   <<TokenUnknown, <<46>>, 1>>,
                                   <<TokenFloat, <<46, 50>>, 2>> >>

\* C25: a token that starts at a `.` which a digit follows is a Float that
\* holds the `.` and the digit.
C25_MantissaOnlyFloat ==
  (Lexed /\ t = New)
    => \A i \in 1..Len(p.toks) :
          (/\ input[p.toks[i].offset + 1] = 46
           /\ p.toks[i].offset + 2 <= Len(input)
           /\ isNumberByte(input[p.toks[i].offset + 2]))
            => /\ p.toks[i].key = TokenFloat
               /\ Len(p.toks[i].value) >= 2

\* The token is a number.
IsNumber(tok) == tok.key \in {TokenInteger, TokenFloat}

\* Each underscore of the value stands between two digits.
UnderscoresBetweenDigits(v) ==
  \A i \in 1..Len(v) :
     v[i] = 95 => /\ 1 < i /\ i < Len(v)
                  /\ isNumberByte(v[i - 1])
                  /\ isNumberByte(v[i + 1])

\* C26: with underscores allowed in numbers, every underscore of a number
\* token stands between two digits: the value does not start or end with an
\* underscore and holds no two underscores in a row.
C26_UnderscoresInside ==
  (Lexed /\ t = CfgUnderscore)
    => \A i \in 1..Len(p.toks) :
          IsNumber(p.toks[i]) => UnderscoresBetweenDigits(p.toks[i].value)

\* C27: with digits, `@` and `.` allowed in keywords, no Keyword token begins
\* with a digit, with `@` or with `.`.
C27_KeywordStartsWithLetter ==
  (Lexed /\ t = CfgKeyword)
    => \A i \in 1..Len(p.toks) :
          p.toks[i].key = TokenKeyword
            => /\ ~isNumberByte(p.toks[i].value[1])
               /\ p.toks[i].value[1] # 64
               /\ p.toks[i].value[1] # 46

\* The bytes of the input after the first a bytes, up to the byte b.
Part(a, b) == SubSeq(input, a + 1, b)

\* The bytes are letters `a`.
Letters(b) == \A i \in 1..Len(b) : b[i] = 97

\* The input begins with a frame that holds one injection: the bytes up to a
\* are the opening delimiter and text, `{{` follows, the content of the
\* injection ends at b, `}}` follows, the text after it ends at c and the
\* closing delimiter follows.
FrameWithInjection(a, b, c) ==
  /\ 1 <= a /\ a + 2 <= b /\ b + 2 <= c /\ c + 1 <= Len(input)
  /\ input[1] = 34 /\ Letters(Part(1, a))
  /\ Part(a, a + 2) = <<123, 123>> /\ Letters(Part(a + 2, b))
  /\ Part(b, b + 2) = <<125, 125>> /\ Letters(Part(b + 2, c))
  /\ input[c + 1] = 34

\* The tokens of such a frame, as the frame of the tokenizer (the first of
\* t.quotes) should give them; k is the place of the end literal.
InjectionTokens(toks, a, b, c, k) ==
  /\ 3 <= k /\ k + 1 <= Len(toks)
  /\ toks[1].key = TokenStringFragment /\ toks[1].value = Part(0, a)
  /\ toks[1].offset = 0 /\ toks[1].string = 1
  /\ toks[2].key = 10 /\ toks[2].value = <<123, 123>> /\ toks[2].offset = a
  /\ \A i \in 3..(k - 1) : toks[i].key = TokenKeyword /\ toks[i].value = Part(a + 2, b)
  /\ toks[k].key = 11 /\ toks[k].value = <<125, 125>> /\ toks[k].offset = b
  /\ toks[k + 1].key = TokenStringFragment /\ toks[k + 1].value = Part(b + 2, c + 1)
  /\ toks[k + 1].offset = b + 2 /\ toks[k + 1].string = 1
  /\ \A i \in 1..(k + 1) : toks[i].key # TokenString

\* C28: a terminated frame with an injection is emitted as the fragment up to
\* the start literal, the start literal, the tokens of the content, the end
\* literal and the fragment from after the end literal through the closing
\* delimiter; no String token is emitted for it and both fragments refer to
\* the settings of the frame.
C28_InjectionFragments ==
  (mode = "parsed" /\ ~Streaming /\ t = CfgInject)
    => \A a, b, c \in 1..Len(input) :
          FrameWithInjection(a, b, c)
            => /\ ~p.panic
               /\ \E k \in 1..Len(p.toks) : InjectionTokens(p.toks, a, b, c, k)

\* The input holds a null byte.
HasNull == \E i \in 1..Len(input) : input[i] = 0

\* No byte of b is the delimiter `"` or a brace `{`.
NoFrameByte(b) == \A i \in 1..Len(b) : b[i] # 34 /\ b[i] # 123

\* A frame opens at the byte o and neither it nor an injection is closed or
\* opened again: no delimiter stands before o, and no delimiter and no start
\* literal after it.
UnterminatedFrame(o) ==
  /\ input[o] = 34
  /\ \A i \in 1..(o - 1) : input[i] # 34
  /\ NoFrameByte(Part(o, Len(input)))

\* The String tokens among the tokens.
Strings(toks) == {i \in 1..Len(toks) : toks[i].key = TokenString}

\* C29: a frame whose end token never occurs gives exactly one String token,
\* from the start token to the end of the input; no error is recorded and
\* parse returns normally.  Stated for ParseBytes and an input without null
\* byte.
C29_UnterminatedFrame ==
  (mode = "parsed" /\ ~Streaming /\ t = CfgInject /\ ~HasNull)
    => \A o \in 1..Len(input) :
          UnterminatedFrame(o)
            => /\ ~p.panic
               /\ Strings(p.toks) = {Len(p.toks)}
               /\ p.toks[Len(p.toks)].value = Part(o - 1, Len(input))
               /\ p.toks[Len(p.toks)].offset = o - 1
               /\ p.toks[Len(p.toks)].string = 1
               /\ p.err = NoError

\* An unterminated frame after other tokens was lexed.
C29_Witness ==
  /\ mode = "parsed" /\ ~Streaming /\ t = CfgInject
  /\ \E o \in 2..(Len(input) - 1) : UnterminatedFrame(o)
  /\ Len(p.toks) > 1

\* ---------------------------------------------------------------------------
\* The errors of the reader.
\* The bytes the reader has delivered.
Delivered == SubSeq(input, 1, Len(input) - Len(p.rest))

\* What the reader returned is what the parser kept: an error other than
\* io.EOF is in the error slot, io.EOF is not, and after either the reader is
\* detached and got no further Read.
ErrorKept(q) ==
  /\ q.returned = ErrBroken => (q.err = ErrBroken /\ ~q.reader)
  /\ q.returned = EOF => (q.err = NoError /\ ~q.reader)
  /\ q.returned = NoError => q.err = NoError
  /\ q.late = 0

\* The lexer q gave the bytes b as tokens and tail.
Lexes(q, b) == ~q.panic => Concat(q.toks) \o q.tail = b

\* C30: when a Read returns an error other than io.EOF the error is stored
\* and the reader detached, so that no later Read is issued; when it returns
\* io.EOF the error slot stays empty; in both cases the call of parse
\* returns and the bytes delivered are lexed, by it and by the calls GoNext
\* makes on the walk to the end of the stream.
C30_ReaderErrors ==
  [][(mode' # "new" /\ p'.chunkSize > 0)
       => /\ ErrorKept(p')
          /\ (p'.returned # p.returned) => ~p'.panic
          /\ (p'.returned # NoError) => Lexes(WalkAll(After).p, Delivered')]_vars

\* A reader returned an error other than io.EOF with a buffer full of bytes,
\* and the bytes were lexed.
C30_Witness ==
  /\ mode # "new" /\ ~p.panic
  /\ p.returned = ErrBroken /\ p.eager
  /\ Len(input) = p.chunkSize
  /\ Len(p.toks) >= 2

\* ---------------------------------------------------------------------------
\* The frame after an injection.
\* C31: the frame goes on at the byte that follows the end literal of an
\* injection, and that byte is tested like every byte of the frame: when the
\* end token of the frame stands there the fragment after the injection is
\* the end token alone, and when a start literal stands there the fragment
\* is empty.  Stated for ParseBytes.
C31_FrameResumesAfterInjection ==
  (Lexed /\ t = CfgInject)
    => \A i \in 1..Len(p.toks) :
          ContinuesFrame(p.toks, i)
            => /\ StandsAt(<<34>>, p.toks[i].offset) => p.toks[i].value = <<34>>
               /\ StandsAt(<<123, 123>>, p.toks[i].offset) => p.toks[i].value = <<>>

\* The lexer q gave the tokens of a frame with one injection.
InjectedAs(q, a, b, c) ==
  /\ ~q.panic
  /\ \E k \in 1..Len(q.toks) : InjectionTokens(q.toks, a, b, c, k)

\* C32: the parse of an injection returns to the frame only after the end
\* literal is emitted (or at the end of the input), in finite and in streaming
\* mode: for a frame with one injection that ends the input, the content of
\* the injection is lexed by the rules of the lexer, the end literal is a
\* token of its own and the frame takes no byte before it.
C32_InjectionSpan ==
  (mode = "parsed" /\ t = CfgInject)
    => \A a, b, c \in 1..Len(input) :
          (FrameWithInjection(a, b, c) /\ c + 1 = Len(input))
            => InjectedAs(AtEnd, a, b, c)

\* ---------------------------------------------------------------------------
\* Numbers with an exponent.
\* The byte of the input after the first o bytes, 0 past the end.
ByteAt(o) == IF o + 1 <= Len(input) THEN input[o + 1] ELSE 0

\* An `e` or `E` stands after the first o bytes and no exponent follows it:
\* neither a digit nor a sign and a digit.
BareE(o) ==
  /\ ByteAt(o) \in {101, 69}
  /\ ~isNumberByte(ByteAt(o + 1))
  /\ ~(ByteAt(o + 1) \in {45, 43} /\ isNumberByte(ByteAt(o + 2)))

\* The bytes are digits.
Digits(v) == \A j \in 1..Len(v) : isNumberByte(v[j])

\* The end of the token in the input.
EndOf(tok) == tok.offset + Len(tok.value)

\* C33: a number that a bare `e` or `E` follows ends before it and is an
\* Integer when it is made of digits; no number token ends with `e`, `E` or a
\* sign; the token after it starts at the `e` or `E` and is a Keyword.  `1ee2`
\* gives Integer `1`, Keyword `ee`, Integer `2`; `1e-s` gives Integer `1`,
\* Keyword `e`, Unknown `-`, Keyword `s`; `0E+` gives Integer `0`, Keyword
\* `E`, Unknown `+`.  Stated for ParseBytes.
C33_ExponentRollback ==
  (Lexed /\ t = New)
    => /\ \A i \in 1..Len(p.toks) :
             IsNumber(p.toks[i])
               => /\ p.toks[i].value[Len(p.toks[i].value)] \notin {101, 69, 45, 43}
                  /\ BareE(EndOf(p.toks[i]))
                       => /\ Digits(p.toks[i].value) => p.toks[i].key = TokenInteger
                          /\ i < Len(p.toks)
                          /\ p.toks[i + 1].offset = EndOf(p.toks[i])
                          /\ p.toks[i + 1].key = TokenKeyword
       /\ input = <<49, 101, 101, 50>>
            => KeyValueOffset(p.toks) = << <<TokenInteger, <<49>>, 0>>,
                                           <<TokenKeyword, <<101, 101>>, 1>>,
                                           <<TokenInteger, <<50>>, 3>> >>
       /\ input = <<49, 101, 45, 115>>
            => KeyValueOffset(p.toks) = << <<TokenInteger, <<49>>, 0>>,
                                           <<TokenKeyword, <<101>>, 1>>,
                                           <<TokenUnknown, <<45>>, 2>>,
                                           <<TokenKeyword, <<115>>, 3>> >>
       /\ input = <<48, 69, 43>>
            => KeyValueOffset(p.toks) = << <<TokenInteger, <<48>>, 0>>,
                                           <<TokenKeyword, <<69>>, 1>>,
                                           <<TokenUnknown, <<43>>, 2>> >>

\* A number was cut before an `e` with a sign and no digit after it.
C33_Witness ==
  /\ Lexed /\ t = New
  /\ \E i \in 1..Len(p.toks) :
        /\ IsNumber(p.toks[i])
        /\ BareE(EndOf(p.toks[i]))
        /\ ByteAt(EndOf(p.toks[i]) + 1) \in {45, 43}

\* ---------------------------------------------------------------------------
\* Escapes in a frame.
\* The escape symbols in a row that end just before the byte j of the frame.
EscapeRun(j) ==
  CHOOSE k \in 0..(j - 2) :
     /\ \A i \in 1..k : input[j - i] = BackSlash
     /\ (k = j - 2 \/ input[j - k - 1] # BackSlash)

\* The byte j of the frame is escaped: an odd number of escape symbols stands
\* before it.
Escaped(j) == EscapeRun(j) % 2 = 1

\* At the byte j an unescaped end token stands.
ClosesAt(j) == 1 < j /\ j <= Len(input) /\ input[j] = 34 /\ ~Escaped(j)

\* At the byte j an unescaped start literal of an injection begins.
OpensAt(j) == 1 < j /\ StandsAt(<<123, 123>>, j - 1) /\ ~Escaped(j)

\* A token of frame text.
FrameText(tok) == tok.key \in {TokenString, TokenStringFragment}

\* The escape symbols in a row, within the token tok, that end just before
\* the byte j of the input.
EscapeRunIn(tok, j) ==
  CHOOSE k \in 0..(j - tok.offset - 1) :
     /\ \A i \in 1..k : input[j - i] = BackSlash
     /\ (k = j - tok.offset - 1 \/ input[j - k - 1] # BackSlash)

\* The byte j of the input is escaped by the frame text of the token tok.
EscapedIn(tok, j) == EscapeRunIn(tok, j) % 2 = 1

\* The token i is the start literal of an injection that begins where the
\* token before it ends.
InjectionAt(toks, i) ==
  /\ i <= Len(toks)
  /\ toks[i].key = 10
  /\ toks[i].offset = EndOf(toks[i - 1])

\* No token of frame text that more input follows ends with an escaped end
\* token, unless an injection opens after it, and none is followed by an
\* injection whose start literal is escaped.
EscapedStaysText(toks) ==
  \A i \in 1..Len(toks) :
     (FrameText(toks[i]) /\ Len(toks[i].value) > 0 /\ EndOf(toks[i]) < Len(input))
       => /\ (input[EndOf(toks[i])] = 34 /\ EscapedIn(toks[i], EndOf(toks[i])))
               => InjectionAt(toks, i + 1)
          /\ InjectionAt(toks, i + 1) => ~EscapedIn(toks[i], EndOf(toks[i]) + 1)

\* C34: the byte after an unescaped escape symbol is text of the frame: an
\* end token or a start literal that begins there neither closes the frame
\* nor opens an injection, and an escaped escape symbol escapes nothing, in
\* every part of a frame, before and after an injection.  A frame that starts
\* the input and is closed before any injection is one String token from its
\* start token to its end token; a frame in which an injection opens first
\* gives the fragment up to the start literal and the start literal.  Stated
\* for ParseBytes and an input without null byte.
C34_EscapedByteIsText ==
  (Lexed /\ t = CfgInject /\ ~HasNull)
    => /\ EscapedStaysText(p.toks)
       /\ (Len(input) > 0 /\ input[1] = 34)
            => /\ \A c \in 2..Len(input) :
                     (ClosesAt(c) /\ \A j \in 2..(c - 1) : ~ClosesAt(j) /\ ~OpensAt(j))
                       => /\ p.toks[1].key = TokenString
                          /\ p.toks[1].value = Part(0, c)
                          /\ p.toks[1].offset = 0
               /\ \A o \in 2..Len(input) :
                     (OpensAt(o) /\ \A j \in 2..(o - 1) : ~ClosesAt(j) /\ ~OpensAt(j))
                       => /\ Len(p.toks) >= 2
                          /\ p.toks[1].key = TokenStringFragment
                          /\ p.toks[1].value = Part(0, o - 1)
                          /\ p.toks[2].key = 10
                          /\ p.toks[2].offset = o - 1

\* ---------------------------------------------------------------------------
\* Null bytes.
\* The number of bytes before the first null byte of the input.
BeforeNull == CHOOSE n \in 0..(Len(input) - 1) :
                 input[n + 1] = 0 /\ \A i \in 1..n : input[i] # 0

\* The tokens end before the first null byte, and there is none when the
\* input is one null byte.
EndBeforeNull(toks) ==
  /\ \A i \in 1..Len(toks) : EndOf(toks[i]) <= BeforeNull
  /\ input = <<0>> => Len(toks) = 0

\* C35: a null byte ends lexing: the value and the indent of every token lie
\* before the first null byte of the input, in finite and in streaming mode
\* (over all the calls of parse), and an input that is one null byte gives no
\* token.
C35_NullEndsLexing ==
  (mode = "parsed" /\ HasNull) => EndBeforeNull(AtEnd.toks)

\* ---------------------------------------------------------------------
\* Termination of parse
\* ---------------------------------------------------------------------

\* No turn of a loop began without a byte consumed since the turn before.
Progressed(q) == q.idle = 0

\* C36: every turn of the loop of parse, of the frame scanner of parseQuote
\* and of a recursive parse for an injection consumes at least one byte of
\* the input or leaves its loop, so lexing the whole input, from bytes or
\* from a reader in chunks, terminates.
C36_LoopsConsume == mode = "parsed" => Progressed(AtEnd)

\* An input with a frame holding an injection is lexed in chunks, through
\* several turns of each loop, by the constructor and by the walk after it.
C36_Witness ==
  /\ mode = "parsed" /\ t = CfgInject /\ Streaming /\ ~p.panic
  /\ AtEnd.n > p.n /\ ~AtEnd.panic
  /\ Len(input) >= 7
  /\ \E a, b, c \in 1..Len(input) : FrameWithInjection(a, b, c)
  /\ Len(p.toks) >= 1

\* ---------------------------------------------------------------------------
\* The ids GoTo is asked for: negative ones, those of the tokens lexed so far
\* and ids greater than the last one.
GoToIds == -2..(Len(p.toks) + 1)

\* GoTo(id) returns or panics: its loop does not run for ever.
Returns(w) == w.st # "hang"

\* C38: GoTo(id) terminates for every integer id and every state of the
\* stream: for ids greater than the last id, for ids smaller than head.id and
\* for calls while current is the sentinel.
C38_GoToTerminates == Usable => \A id \in GoToIds : Returns(GoTo(Now, id))

\* ---------------------------------------------------------------------------
\* The pointer ptr of the stream refers to a node that history eviction has
\* unlinked and returned to the pool.
Released(ptr) == ptr \in 1..s.freed

\* C39: in every state of a stream reached by GoNext, GoPrev, GoTo,
\* IsNextSequence, IsAnyNextSequence and SetHistorySize, none of current,
\* head, prev and next refers to a node that history eviction has unlinked
\* and returned to the pool.
C39_NoPointerToEvicted ==
  Usable => ~Released(s.current) /\ ~Released(s.head) /\ ~Released(s.prev) /\ ~Released(s.next)

\* ---------------------------------------------------------------------------
\* After a Read that returned fewer bytes than chunkSize the reader is
\* detached and got no further Read.
ShortEnds(q) == q.short => (~q.reader /\ q.stale = 0)

\* C40: over a reader, after a Read of preload or of loadChunk that returns
\* fewer bytes than chunkSize, with or without an error, the reader is
\* detached and never read again, now and on the walk to the end of the
\* stream: the bytes delivered so far are all the input the lexer gets.
C40_ShortReadEndsInput ==
  (mode # "new" /\ p.chunkSize > 0)
     => /\ ShortEnds(p)
        /\ p.short => (ShortEnds(AtEnd) /\ AtEnd.rest = p.rest)

\* A Read returned fewer bytes than the buffer holds, without an error and
\* with bytes left in the reader, after a full chunk, and tokens were lexed.
C40_Witness ==
  /\ mode # "new" /\ ~p.panic
  /\ p.short /\ p.returned = NoError
  /\ Len(p.rest) > 0
  /\ Len(Delivered) > p.chunkSize
  /\ Len(p.toks) >= 1

\* ---------------------------------------------------------------------------
\* Two streams of one tokenizer.

\* The inputs of the second stream.
OtherInputs == {<<97>>, <<49, 32, 93>>}

\* The parser q of a second stream holds, for one of its tokens, the node the
\* pointer ptr of the stream w refers to.
SharesNode(w, ptr, q) ==
  \E k \in 1..Len(q.took) : q.took[k] # 0 /\ q.took[k] = node(w, ptr)

\* No pointer of the stream w refers to a node of the parser q.
OwnsNodes(w, q) ==
  \A ptr \in {w.s.current, w.s.head, w.s.prev, w.s.next} : ~SharesNode(w, ptr, q)

\* C37: the token nodes belong to one stream: with two streams of the same
\* tokenizer used in turn, a node that one stream released is never seen by
\* the other, and each stream shows the tokens it shows alone.
C37_StreamsOwnTheirNodes ==
  Usable => \A b \in OtherInputs : 
       \A fate \in 0..MaxFate : OwnsNodes(Now, parse(newParserOn(t, b, p.pool, fate)))

====
